---- MODULE Spec2Model ----
(***************************************************************************)
(* PulseFM control plane: the playback rotation engine (/tick), the poll   *)
(* lifecycle (/vote/close, poll rotation inside /tick), vote admission     *)
(* (tally-function + the KV-VOTE script), the next-song refresh paths      *)
(* (/next/refresh and the next-song-updater function) and the encoder's    *)
(* song write, over the shared Firestore documents (DS) and Redis keys     *)
(* (KV).  Every handler is a sequence of steps, one per suspension point   *)
(* (DS/KV round trip) of the source; handlers run on the slots of Procs    *)
(* and interleave between steps.                                           *)
(***************************************************************************)
EXTENDS Integers, FiniteSets, Sequences, TLC

\* ------------------------------------------------------------------ bounds
\* the largest tick requestVersion, the number of polls opened, the number of encoder
\* writes, the options sampled for a poll, and the clock's advance between rotations
MaxVersion == 2
MaxPolls == 2
MaxEncodes == 2
options_per_window == 2
TimeStep == 1000
MaxHubEvents == 4
\* subscriber ids drawn and chunks published in a run
MaxSubscribers == 3
MaxChunks == 4
\* StreamBroadcaster(queue_maxsize): the capacity of each subscriber queue
queue_maxsize == 2

\* ------------------------------------------------------- program constants
STUBBED_DURATION_MS == 150000
VOTE_CLOSE_LEAD_SECONDS == 60
STUBBED_VOTE_ID == "stubbed"

Procs == {1, 2}
Sessions == {"s1", "s2"}
Catalog == {"a", "b", "c"}
\* settings.vote_options, the VOTE_OPTIONS of the deployment
vote_options == {"a", "b"}
SongIds == {"x", "y"}
PollIds == 1..MaxPolls
Versions == 1..MaxVersion

\* durationMs the encoder measures for each generated song
SongDuration(s) == IF s = "x" THEN 180000 ELSE 45000

VARIABLES
    station,      \* DS stations/main
    songs,        \* DS songs/{voteId}, generated songs only
    voteState,    \* DS voteState/current
    kvSnapshot,   \* KV pulsefm:playback:current
    kvTally,      \* KV pulsefm:poll:{voteId}:tally
    kvVoted,      \* KV pulsefm:poll:{voteId}:voted
    published,    \* EventBus: every message published so far
    tasks,        \* TQ: every task enqueued so far (named tasks are de-duplicated)
    procs,        \* the handler running on each slot, with its locals
    response,     \* the response the last step returned, NoResponse when it returned none
    clock,        \* the wall clock, as read by _utc_now()
    uuids,        \* number of uuid4() poll ids drawn so far
    encodes,      \* number of encoder song writes so far
    commits,      \* history: station commits per tick request version
    admitted,     \* history: votes that incremented a tally, per poll and session
    closedBy,     \* history: /vote/close calls that returned "closed", per poll
    opened,       \* history: the poll each tick request version opened, 0 when none
    stream,       \* playback-stream: app.state.stream, the StreamState of the process
    handlers,     \* playback-stream: the /events/playback handlers in flight
    loop,         \* playback-stream: the SSE connection's _event_stream coroutine
    sse,          \* the SSE event the last step sent on the connection, NoSse when none
    hubClock,     \* _utc_ms() of the playback-stream process
    songChanged,  \* history: highest version of a SONG_CHANGED sent on the connection
    emitted,      \* history: the <<event, version or voteId>> pairs sent on the connection
    client,       \* history: the tally a client of the connection holds, its voteId, and
                  \* whether an option disappeared since the last TALLY_SNAPSHOT
    running,      \* StreamBroadcaster._running
    subscribers,  \* StreamBroadcaster._subscribers: subscriber id -> its queue
    subscriber_count, \* StreamBroadcaster._subscriber_count
    subscribed,   \* number of uuid4() subscriber ids drawn so far
    chunks,       \* history: number of chunks fanned out so far
    lastDrop,     \* history: the last chunk whose fan-out dropped a subscriber, 0 when none
    close_done,   \* modal-dispatch: vote ids whose pulsefm:modal:close:{id}:done key exists
    close_lock,   \* modal-dispatch: vote ids whose pulsefm:modal:close:{id}:lock key exists
    dispatchers,  \* modal-dispatch: the _handle_close_event calls in flight
    dispatch_status, \* modal-dispatch: "status" of the last answer, "" when a step gave none
    min_containers,  \* Modal: min_containers of the generation function
    dispatched,   \* history: generation calls made, per vote id
    deliveries,   \* history: CLOSE deliveries taken so far
    dedupe,       \* vote-api: the dedupe keys that exist, with their values
    attempt,      \* vote-api: the last set-if-absent and its reply
    wins          \* history: truthy replies per pair since its key last appeared

vars == <<station, songs, voteState, kvSnapshot, kvTally, kvVoted, published,
          tasks, procs, response, clock, uuids, encodes, commits, admitted, closedBy,
          opened, stream, handlers, loop, sse, hubClock, songChanged, emitted, client,
          running, subscribers, subscriber_count, subscribed, chunks, lastDrop,
          close_done, close_lock, dispatchers, dispatch_status, min_containers,
          dispatched, deliveries, dedupe, attempt, wins>>

mdVars == <<close_done, close_lock, dispatchers, dispatch_status, min_containers,
            dispatched, deliveries>>

vaVars == <<dedupe, attempt, wins>>

svcVars == <<mdVars, vaVars>>

bcVars == <<running, subscribers, subscriber_count, subscribed, chunks, lastDrop>>

hubVars == <<stream, handlers, loop, sse, hubClock, songChanged, emitted, client>>

dsVars == <<station, songs, voteState>>
kvVars == <<kvSnapshot, kvTally, kvVoted>>
histVars == <<commits, admitted, closedBy, opened>>
envVars == <<dsVars, kvVars, published, tasks, procs, response, clock, uuids, encodes, histVars>>

\* --------------------------------------------------------------- values
EmptyTally == [o \in {} |-> 0]

NoVote ==
    [voteId |-> 0, status |-> "ABSENT", startAt |-> 0, durationMs |-> 0, endAt |-> 0,
     options |-> {}, tallies |-> EmptyTally, version |-> 0, winnerOption |-> ""]

NoSong == [voteId |-> "", durationMs |-> 0]

NoSnapshot ==
    [present |-> FALSE, ttl |-> FALSE,
     currentSong |-> [voteId |-> "", startAt |-> 0, endAt |-> 0, durationMs |-> 0],
     nextSong |-> NoSong,
     poll |-> [voteId |-> 0, options |-> {}, version |-> 0, status |-> "", endAt |-> 0]]

NoRotation ==
    [start_at |-> 0, ends_at |-> 0, duration_ms |-> 0, vote_id |-> "",
     next_vote_id |-> "", next_duration_ms |-> 0, next_stubbed |-> FALSE, version |-> 0]

NoTxn == [action |-> "", reason |-> "", voteId |-> "", durationMs |-> 0, version |-> 0]

Idle ==
    [op |-> "idle", pc |-> "idle", version |-> 0, voteId |-> 0, sessionId |-> "",
     option |-> "", song |-> "", state |-> NoVote, tallies |-> EmptyTally,
     winner |-> "", rotation |-> NoRotation, window |-> NoVote,
     snapshot |-> NoSnapshot, txn |-> NoTxn]

NoResponse == [op |-> "", status |-> "", reason |-> "", version |-> 0]

Max(a, b) == IF a >= b THEN a ELSE b

RECURSIVE SumOver(_, _)
SumOver(f, S) ==
    IF S = {} THEN 0
    ELSE LET x == CHOOSE y \in S : TRUE IN f[x] + SumOver(f, S \ {x})

TallySum(t) == SumOver(t, DOMAIN t)

\* ---- playback-stream values
HubProcs == {1, 2}

\* modal-dispatch-service: slots for concurrent deliveries, and the deliveries taken
Dispatchers == {1, 2}
MaxDeliveries == 3
NoDispatcher == [pc |-> "idle", vote_id |-> 0, winner_option |-> "", status |-> ""]

\* vote-api: window and session ids are strings without ":", of any length
window_ids == {<<"a">>, <<"a", "-">>}
session_ids == {<<"-", "1">>, <<"1">>}
DedupePairs == window_ids \X session_ids
NoAttempt == [window_id |-> <<>>, session_id |-> <<>>, option |-> "", ok |-> FALSE]

\* a marker event that was never recorded has ts 0
NoInvalidated == [voteId |-> 0, ts |-> 0, version |-> 0]
NoVoteClosed == [voteId |-> 0, winnerOption |-> "", ts |-> 0]
NoNextSongChanged == [voteId |-> "", durationMs |-> 0, version |-> 0, ts |-> 0]

\* CachedValue of the snapshot: data is NoSnapshot for None
NoCache == [fresh |-> FALSE, data |-> NoSnapshot]

\* CachedValue of a poll's tallies: absent from tally_caches, dirty, fresh, or stale once
\* TALLY_CACHE_STALENESS_MS have passed; data is EmptyTally for None
NoTallyCache == [state |-> "absent", data |-> EmptyTally]

NoStation ==
    [voteId |-> "", startAt |-> 0, endAt |-> 0, durationMs |-> 0, version |-> 0,
     next |-> NoSong]

\* a coroutine of the hub: a push handler or the connection; fetch is the read of
\* _get_state_snapshot it waits for
HubIdle ==
    [op |-> "idle", fetch |-> "", version |-> 0, snapshot |-> NoSnapshot,
     station |-> NoStation, state |-> NoVote, voteId |-> 0]

NoLoop ==
    [op |-> "closed", fetch |-> "", version |-> 0, snapshot |-> NoSnapshot,
     station |-> NoStation, state |-> NoVote, vote_id |-> 0,
     last_tallies |-> EmptyTally, tallies |-> EmptyTally, snapshot_due |-> FALSE,
     markers |-> [last_invalidated_at |-> 0, last_vote_closed_at |-> 0,
                  last_next_song_changed_at |-> 0]]

\* what a client holds before the first TALLY_SNAPSHOT
NoClient == [voteId |-> 0, tally |-> EmptyTally, lost |-> FALSE]

NoSse == [event |-> "", voteId |-> 0, song |-> "", version |-> 0, status |-> ""]

Sse(event, vote_id, song, version) ==
    [event |-> event, voteId |-> vote_id, song |-> song, version |-> version, status |-> ""]

\* _build_tally_snapshot_payload: the TALLY_SNAPSHOT carries the status of the poll in
\* the snapshot it was built from
TallySnapshotSse(vote_id, snapshot) ==
    [Sse("TALLY_SNAPSHOT", vote_id, "", 0) EXCEPT !.status = snapshot.poll.status]

\* StreamState.__init__
InitHub ==
    /\ stream = [snapshot_cache |-> NoCache, last_invalidated |-> NoInvalidated,
                 last_vote_closed |-> NoVoteClosed,
                 last_next_song_changed |-> NoNextSongChanged,
                 last_playback_version |-> 0,
                 tally_caches |-> [v \in PollIds |-> NoTallyCache],
                 tally_lock |-> FALSE]
    /\ handlers = [h \in HubProcs |-> HubIdle]
    /\ loop = NoLoop
    /\ sse = NoSse
    /\ hubClock = 0
    /\ songChanged = 0
    /\ emitted = {}
    /\ client = NoClient

\* StreamBroadcaster.__init__
InitBroadcaster ==
    /\ running = FALSE
    /\ subscribers = [i \in {} |-> <<>>]
    /\ subscriber_count = 0
    /\ subscribed = 0
    /\ chunks = 0
    /\ lastDrop = 0

InitDispatch ==
    /\ close_done = {}
    /\ close_lock = {}
    /\ dispatchers = [d \in Dispatchers |-> NoDispatcher]
    /\ dispatch_status = ""
    /\ min_containers = 0
    /\ dispatched = [v \in PollIds |-> 0]
    /\ deliveries = 0

InitDedupe ==
    /\ dedupe = {}
    /\ attempt = NoAttempt
    /\ wins = [p \in DedupePairs |-> 0]

\* ---------------------------------------------------------------- Init
\* seed_firestore.py: stations/main and songs/stubbed; no version field (read as 0)
Init ==
    /\ station = [voteId |-> STUBBED_VOTE_ID, startAt |-> 0, endAt |-> STUBBED_DURATION_MS,
                  durationMs |-> STUBBED_DURATION_MS, version |-> 0,
                  next |-> [voteId |-> STUBBED_VOTE_ID, durationMs |-> STUBBED_DURATION_MS]]
    /\ songs = [s \in SongIds |-> [status |-> "absent", durationMs |-> 0, createdAt |-> 0]]
    /\ voteState = NoVote
    /\ kvSnapshot = NoSnapshot
    /\ kvTally = [v \in PollIds |-> EmptyTally]
    /\ kvVoted = [v \in PollIds |-> {}]
    /\ published = {}
    /\ tasks = {}
    /\ procs = [p \in Procs |-> Idle]
    /\ response = NoResponse
    /\ clock = 0
    /\ uuids = 0
    /\ encodes = 0
    /\ commits = [v \in Versions |-> 0]
    /\ admitted = [v \in PollIds |-> [s \in Sessions |-> 0]]
    /\ closedBy = [v \in PollIds |-> 0]
    /\ opened = [v \in Versions |-> 0]
    /\ InitHub
    /\ InitBroadcaster
    /\ InitDispatch
    /\ InitDedupe

\* ------------------------------------------------------- handler plumbing
\* a request is taken by the lowest free slot (the slots are interchangeable)
Free(p) == procs[p].pc = "idle" /\ \A q \in Procs : procs[q].pc = "idle" => p <= q

At(p, op, pc) == procs[p].op = op /\ procs[p].pc = pc

Goto(p, pc) == procs' = [procs EXCEPT ![p].pc = pc]

\* the handler on slot p returns r; its slot is free again
Return(p, r) ==
    /\ procs' = [procs EXCEPT ![p] = Idle]
    /\ response' = r

Resp(p, status, reason) ==
    [op |-> procs[p].op, status |-> status, reason |-> reason,
     version |-> IF procs[p].op = "tick" /\ status = "ok" THEN procs[p].version ELSE 0]

\* ---------------------------------------------------------- EventBus, TQ
Event(event, pollId, song, winnerOption, durationMs, version) ==
    [event |-> event, voteId |-> pollId, song |-> song, winnerOption |-> winnerOption,
     durationMs |-> durationMs, version |-> version]

publish_vote_event(event, vote_id, winner_option) ==
    Event(event, vote_id, "", winner_option, 0, 0)

publish_playback_event(event, song, duration_ms, version) ==
    Event(event, 0, song, "", duration_ms, version)

\* tally_function's message on the tally topic
publish_tally(vote_id) == Event("TALLY", vote_id, "", "", 0, 0)

TickTask(version) == [url |-> "/tick", voteId |-> 0, version |-> version]

VoteCloseTask(vote_id, version) == [url |-> "/vote/close", voteId |-> vote_id, version |-> version]

\* _ensure_playback_tick_scheduled, run when a service instance starts: enqueue
\* tick(version + 1)
ensure_playback_tick_scheduled ==
    /\ station.version + 1 <= MaxVersion
    /\ tasks' = tasks \cup {TickTask(station.version + 1)}
    /\ response' = NoResponse
    /\ UNCHANGED <<dsVars, kvVars, published, procs, clock, uuids, encodes, histVars, hubVars, bcVars, svcVars>>

\* ------------------------------------------------------------- rotation
is_stale_below(request_version, current_version) == request_version < current_version

\* _rotate_song._txn: the version guard
is_stale(request_version, current_version) == request_version <= current_version

ReadySongs_with_queued(current_vote_id) ==
    {s \in SongIds : songs[s].status \in {"ready", "queued"}}

\* the ready songs other than the current one; the newest (createdAt DESC) is taken
ReadySongs(current_vote_id) ==
    {s \in SongIds : songs[s].status = "ready" /\ s # current_vote_id}

select_ready_song_candidate(current_vote_id) ==
    LET ready == ReadySongs(current_vote_id) IN
    IF ready = {} THEN ""
    ELSE CHOOSE s \in ready : \A t \in ready : songs[t].createdAt <= songs[s].createdAt

\* ticks that have committed the station but not yet drawn their poll id
PendingOpens == Cardinality({p \in Procs : procs[p].op = "tick" /\ procs[p].pc # "redis_open"
                                            /\ procs[p].pc # "publish_schedule"})

committed_version_incremented(request_version, current_version) == current_version + 1

\* the version the station record takes when a tick commits
committed_version(request_version, current_version) == request_version

\* POST /tick, up to the end of the station transaction (_rotate_song)
tick_rotate_song(p, request_version) ==
    /\ Free(p)
    /\ IF is_stale(request_version, station.version)
       THEN /\ response' = [op |-> "tick", status |-> "noop", reason |-> "stale_version",
                             version |-> request_version]
            /\ UNCHANGED <<dsVars, kvVars, published, tasks, procs, clock, uuids, encodes, histVars, hubVars, bcVars, svcVars>>
       ELSE LET current_vote_id == station.next.voteId
                duration_ms == station.next.durationMs
                now == clock + TimeStep
                cand == select_ready_song_candidate(current_vote_id)
                candidate == IF cand = ""
                             THEN [id |-> STUBBED_VOTE_ID, duration |-> STUBBED_DURATION_MS, stubbed |-> TRUE]
                             ELSE [id |-> cand, duration |-> songs[cand].durationMs, stubbed |-> FALSE]
                played == IF current_vote_id # STUBBED_VOTE_ID
                          THEN [songs EXCEPT ![current_vote_id].status = "played"]
                          ELSE songs
                rotation == [start_at |-> now, ends_at |-> now + duration_ms,
                             duration_ms |-> duration_ms, vote_id |-> current_vote_id,
                             next_vote_id |-> candidate.id,
                             next_duration_ms |-> candidate.duration,
                             next_stubbed |-> candidate.stubbed,
                             version |-> request_version]
            IN  /\ uuids + PendingOpens < MaxPolls
                /\ clock' = now
                /\ station' = [voteId |-> current_vote_id, startAt |-> now,
                               endAt |-> now + duration_ms, durationMs |-> duration_ms,
                               version |-> committed_version(request_version, station.version),
                               next |-> [voteId |-> candidate.id, durationMs |-> candidate.duration]]
                /\ songs' = IF candidate.stubbed THEN played
                            ELSE [played EXCEPT ![candidate.id].status = "queued"]
                /\ commits' = [commits EXCEPT ![request_version] = @ + 1]
                /\ procs' = [procs EXCEPT ![p] = [Idle EXCEPT !.op = "tick", !.pc = "rotate_vote",
                                                              !.version = request_version,
                                                              !.rotation = rotation]]
                /\ response' = NoResponse
    /\ UNCHANGED <<voteState, kvVars, published, tasks, uuids, encodes, admitted, closedBy, opened, hubVars, bcVars, svcVars>>

\* _rotate_vote: read voteState/current; an OPEN poll is closed first
tick_rotate_vote(p) ==
    /\ At(p, "tick", "rotate_vote")
    /\ procs' = [procs EXCEPT ![p].state = voteState,
                              ![p].pc = IF voteState.status = "OPEN" THEN "close_tallies"
                                        ELSE "open_vote"]
    /\ response' = NoResponse
    /\ UNCHANGED <<dsVars, kvVars, published, tasks, clock, uuids, encodes, histVars, hubVars, bcVars, svcVars>>

\* ------------------------------------------------------------ poll close
\* get_poll_tallies, with _close_vote's fallback to zeroed options
close_tallies_of(state) ==
    IF DOMAIN kvTally[state.voteId] = {} THEN [o \in state.options |-> 0]
    ELSE kvTally[state.voteId]

pick_winner_any_option(tallies) ==
    IF DOMAIN tallies = {} THEN {""} ELSE DOMAIN tallies

\* the options _pick_winner draws from with random.choice
pick_winner(tallies) ==
    IF DOMAIN tallies = {} THEN {""}
    ELSE {o \in DOMAIN tallies : \A q \in DOMAIN tallies : tallies[q] <= tallies[o]}

InClose(p) == procs[p].op \in {"tick", "close"}

\* _close_vote: load the tallies from KV and pick the winner
close_vote_tallies(p) ==
    /\ InClose(p) /\ procs[p].pc = "close_tallies"
    /\ LET tallies == close_tallies_of(procs[p].state) IN
       \E w \in pick_winner(tallies) :
          procs' = [procs EXCEPT ![p].tallies = tallies, ![p].winner = w, ![p].pc = "close_set"]
    /\ response' = NoResponse
    /\ UNCHANGED <<dsVars, kvVars, published, tasks, clock, uuids, encodes, histVars, hubVars, bcVars, svcVars>>

\* _close_vote: voteState/current.set(window_doc), window_doc built from the state read
close_vote_set(p) ==
    /\ InClose(p) /\ procs[p].pc = "close_set"
    /\ voteState' = [procs[p].state EXCEPT !.status = "CLOSED",
                                           !.winnerOption = procs[p].winner,
                                           !.tallies = procs[p].tallies]
    /\ Goto(p, "close_snap_get")
    /\ response' = NoResponse
    /\ UNCHANGED <<station, songs, kvVars, published, tasks, clock, uuids, encodes, histVars, hubVars, bcVars, svcVars>>

\* set_playback_poll_status: read the snapshot; raises when it is missing or of another poll
close_vote_snap_get(p) ==
    /\ InClose(p) /\ procs[p].pc = "close_snap_get"
    /\ IF ~kvSnapshot.present \/ kvSnapshot.poll.voteId # procs[p].state.voteId
       THEN /\ Return(p, Resp(p, "error", IF kvSnapshot.present THEN "snapshot_voteId_mismatch"
                                          ELSE "snapshot_missing"))
       ELSE /\ procs' = [procs EXCEPT ![p].snapshot = [kvSnapshot EXCEPT !.poll.status = "CLOSED"],
                                      ![p].pc = "close_snap_set"]
            /\ response' = NoResponse
    /\ UNCHANGED <<dsVars, kvVars, published, tasks, clock, uuids, encodes, histVars, hubVars, bcVars, svcVars>>

\* set_playback_poll_status: read the TTL and SET the snapshot (EX ttl when the key is
\* still live, no expiry otherwise); then _close_vote publishes CLOSE
close_vote_snap_set(p) ==
    /\ InClose(p) /\ procs[p].pc = "close_snap_set"
    /\ kvSnapshot' = [procs[p].snapshot EXCEPT !.present = TRUE,
                                               !.ttl = kvSnapshot.present /\ kvSnapshot.ttl]
    /\ published' = published \cup
          {publish_vote_event("CLOSE", procs[p].state.voteId, procs[p].winner)}
    /\ IF procs[p].op = "close"
       THEN /\ Return(p, Resp(p, "ok", "closed"))
            /\ closedBy' = [closedBy EXCEPT ![procs[p].state.voteId] = @ + 1]
       ELSE /\ Goto(p, "open_vote")
            /\ response' = NoResponse /\ UNCHANGED closedBy
    /\ UNCHANGED <<dsVars, kvTally, kvVoted, tasks, clock, uuids, encodes, commits, admitted, opened, hubVars, bcVars, svcVars>>

close_mismatch_ignoring_version(state, expected_vote_id, expected_version) ==
    IF state.status = "ABSENT" THEN "missing_state"
    ELSE IF state.voteId # expected_vote_id THEN "vote_mismatch"
    ELSE IF state.status # "OPEN" THEN "already_closed"
    ELSE ""

\* the guard of _close_current_vote_if_matches: "" when the poll is to be closed
close_mismatch(state, expected_vote_id, expected_version) ==
    IF state.status = "ABSENT" THEN "missing_state"
    ELSE IF state.voteId # expected_vote_id THEN "vote_mismatch"
    ELSE IF state.version # expected_version THEN "version_mismatch"
    ELSE IF state.status # "OPEN" THEN "already_closed"
    ELSE ""

\* POST /vote/close: _close_current_vote_if_matches, up to its read of voteState/current
close_vote(p, vote_id, version) ==
    /\ Free(p)
    /\ LET reason == close_mismatch(voteState, vote_id, version) IN
       IF reason # ""
       THEN /\ response' = [NoResponse EXCEPT !.op = "close", !.status = "ok", !.reason = reason]
            /\ UNCHANGED procs
       ELSE /\ procs' = [procs EXCEPT ![p] = [Idle EXCEPT !.op = "close", !.pc = "close_tallies",
                                                          !.voteId = vote_id, !.version = version,
                                                          !.state = voteState]]
            /\ response' = NoResponse
    /\ UNCHANGED <<dsVars, kvVars, published, tasks, clock, uuids, encodes, histVars, hubVars, bcVars, svcVars>>

\* ------------------------------------------------------------- poll open
\* the poll lasts as long as the song
vote_duration_ms_without_lead(song_duration_ms) == song_duration_ms

vote_duration_ms(song_duration_ms) == Max(0, song_duration_ms - (VOTE_CLOSE_LEAD_SECONDS * 1000))

next_vote_version(state) == IF state.status = "ABSENT" THEN 1 ELSE state.version + 1

build_vote(vote_id, start_at, duration_ms, options, version) ==
    [voteId |-> vote_id, status |-> "OPEN", startAt |-> start_at, durationMs |-> duration_ms,
     endAt |-> start_at + duration_ms, options |-> options,
     tallies |-> [o \in options |-> 0], version |-> version, winnerOption |-> ""]

\* the number of options a poll is configured to offer
configured_options ==
    IF vote_options # {} THEN Cardinality(vote_options) ELSE options_per_window

\* settings.vote_options when configured, else random.sample(get_descriptor_keys(),
\* options_per_window): the option sets a new poll can get
get_window_options ==
    IF vote_options # {} THEN {vote_options}
    ELSE {S \in SUBSET Catalog : Cardinality(S) = options_per_window}

\* _open_next_vote: write the new OPEN poll to voteState/current and publish OPEN
tick_open_vote(p) ==
    /\ At(p, "tick", "open_vote")
    /\ uuids < MaxPolls
    /\ \E options \in get_window_options :
         LET window == build_vote(uuids + 1, clock,
                                  vote_duration_ms(procs[p].rotation.duration_ms),
                                  options, next_vote_version(procs[p].state))
         IN /\ voteState' = window
            /\ uuids' = uuids + 1
            /\ published' = published \cup {publish_vote_event("OPEN", window.voteId, "")}
            /\ procs' = [procs EXCEPT ![p].window = window, ![p].pc = "redis_open"]
            /\ opened' = [opened EXCEPT ![procs[p].version] = window.voteId]
    /\ response' = NoResponse
    /\ UNCHANGED <<station, songs, kvVars, tasks, clock, encodes, commits, admitted, closedBy, hubVars, bcVars, svcVars>>

build_playback_snapshot(rotation, window) ==
    [present |-> TRUE, ttl |-> TRUE,
     currentSong |-> [voteId |-> rotation.vote_id, startAt |-> rotation.start_at,
                      endAt |-> rotation.ends_at, durationMs |-> rotation.duration_ms],
     nextSong |-> [voteId |-> rotation.next_vote_id, durationMs |-> rotation.next_duration_ms],
     poll |-> [voteId |-> window.voteId, options |-> window.options,
               version |-> window.version, status |-> "OPEN", endAt |-> window.endAt]]

\* POLL_OPEN_LUA (KV-OPEN): SET snapshot EX ttl; DEL+HSET tally; DEL voted
tick_redis_open(p) ==
    /\ At(p, "tick", "redis_open")
    /\ LET window == procs[p].window IN
         /\ kvSnapshot' = build_playback_snapshot(procs[p].rotation, window)
         /\ kvTally' = [kvTally EXCEPT ![window.voteId] = [o \in window.options |-> 0]]
         /\ kvVoted' = [kvVoted EXCEPT ![window.voteId] = {}]
    /\ Goto(p, "publish_schedule")
    /\ response' = NoResponse
    /\ UNCHANGED <<dsVars, published, tasks, clock, uuids, encodes, histVars, hubVars, bcVars, svcVars>>

\* _publish_changeover_events and _schedule_next_tasks, then the handler returns ok
tick_publish_schedule(p) ==
    /\ At(p, "tick", "publish_schedule")
    /\ LET rotation == procs[p].rotation
           window == procs[p].window
       IN /\ published' = published \cup
                {publish_playback_event("NEXT-SONG-CHANGED", rotation.next_vote_id,
                                        rotation.next_duration_ms, procs[p].version),
                 publish_playback_event("CHANGEOVER", "", rotation.duration_ms, procs[p].version)}
          /\ tasks' = tasks \cup {VoteCloseTask(window.voteId, window.version),
                                  TickTask(procs[p].version + 1)}
    /\ Return(p, Resp(p, "ok", ""))
    /\ UNCHANGED <<dsVars, kvVars, clock, uuids, encodes, histVars, hubVars, bcVars, svcVars>>

\* the snapshot key reaches its TTL
expire_snapshot ==
    /\ kvSnapshot.present /\ kvSnapshot.ttl
    /\ kvSnapshot' = NoSnapshot
    /\ response' = NoResponse
    /\ UNCHANGED <<dsVars, kvTally, kvVoted, published, tasks, procs, clock, uuids, encodes, histVars, hubVars, bcVars, svcVars>>

\* the tally key of a poll reaches the TTL that POLL_OPEN_LUA gave it
expire_tally(vote_id) ==
    /\ DOMAIN kvTally[vote_id] # {}
    /\ kvTally' = [kvTally EXCEPT ![vote_id] = EmptyTally]
    /\ response' = NoResponse
    /\ UNCHANGED <<dsVars, kvSnapshot, kvVoted, published, tasks, procs, clock, uuids, encodes, histVars, hubVars, bcVars, svcVars>>

\* ------------------------------------------------------------ vote admission
HINCRBY(tally, option) ==
    [o \in DOMAIN tally \cup {option} |->
        IF o = option THEN (IF o \in DOMAIN tally THEN tally[o] ELSE 0) + 1 ELSE tally[o]]

\* HINCRBY runs whatever SADD returned
VOTE_LUA_hincrby_unguarded(voted, tally, session_id, option) ==
    [voted |-> voted \cup {session_id}, tally |-> HINCRBY(tally, option),
     ret |-> IF session_id \notin voted THEN 1 ELSE 0]

\* the session is never recorded
VOTE_LUA_no_sadd(voted, tally, session_id, option) ==
    [voted |-> voted, tally |-> HINCRBY(tally, option), ret |-> 1]

\* the script returns 1 for a session it has already recorded
VOTE_LUA_returns_one(voted, tally, session_id, option) ==
    [voted |-> voted \cup {session_id},
     tally |-> IF session_id \notin voted THEN HINCRBY(tally, option) ELSE tally,
     ret |-> 1]

\* VOTE_LUA (KV-VOTE): SADD voted session; if added, HINCRBY tally option 1 and return 1
VOTE_LUA(voted, tally, session_id, option) ==
    IF session_id \notin voted
    THEN [voted |-> voted \cup {session_id}, tally |-> HINCRBY(tally, option), ret |-> 1]
    ELSE [voted |-> voted, tally |-> tally, ret |-> 0]

\* tally_function's check of the snapshot: TRUE when the vote goes on to the option check
vote_is_current(snapshot, vote_id) == snapshot.present /\ snapshot.poll.voteId = vote_id

option_exists_unchecked(tally, option) == TRUE

\* tally_function's HEXISTS check on the poll's tally hash
option_exists(tally, option) == option \in DOMAIN tally

\* tally_function, up to its read of the playback snapshot
tally_function(p, vote_id, session_id, option) ==
    /\ Free(p)
    /\ IF ~vote_is_current(kvSnapshot, vote_id)
       THEN /\ response' = [NoResponse EXCEPT !.op = "vote", !.status = "vote_not_open"]
            /\ UNCHANGED procs
       ELSE /\ procs' = [procs EXCEPT ![p] = [Idle EXCEPT !.op = "vote", !.pc = "hexists",
                                                          !.voteId = vote_id,
                                                          !.sessionId = session_id,
                                                          !.option = option,
                                                          !.snapshot = kvSnapshot]]
            /\ response' = NoResponse
    /\ UNCHANGED <<dsVars, kvVars, published, tasks, clock, uuids, encodes, histVars, hubVars, bcVars, svcVars>>

\* tally_function: HEXISTS tally option
tally_function_hexists(p) ==
    /\ At(p, "vote", "hexists")
    /\ IF ~option_exists(kvTally[procs[p].voteId], procs[p].option)
       THEN Return(p, Resp(p, "invalid_option", ""))
       ELSE Goto(p, "eval") /\ response' = NoResponse
    /\ UNCHANGED <<dsVars, kvVars, published, tasks, clock, uuids, encodes, histVars, hubVars, bcVars, svcVars>>

\* tally_function: _record_vote_atomic runs KV-VOTE; ok publishes a tally event
record_vote_atomic(p) ==
    /\ At(p, "vote", "eval")
    /\ LET v == procs[p].voteId
           r == VOTE_LUA(kvVoted[v], kvTally[v], procs[p].sessionId, procs[p].option)
       IN /\ kvVoted' = [kvVoted EXCEPT ![v] = r.voted]
          /\ kvTally' = [kvTally EXCEPT ![v] = r.tally]
          /\ admitted' = [admitted EXCEPT ![v][procs[p].sessionId] =
                                      IF r.tally # kvTally[v] THEN @ + 1 ELSE @]
          /\ published' = IF r.ret = 1 THEN published \cup {publish_tally(v)}
                           ELSE published
          /\ Return(p, Resp(p, IF r.ret = 1 THEN "ok" ELSE "duplicate", ""))
    /\ UNCHANGED <<dsVars, kvSnapshot, tasks, clock, uuids, encodes, commits, closedBy, opened, hubVars, bcVars, svcVars>>

\* ------------------------------------------------------- next-song refresh
\* _refresh_next_song._transaction_fn: the result the transaction returns
refresh_result ==
    IF station.next.voteId # STUBBED_VOTE_ID
    THEN [action |-> "noop", reason |-> "next_not_stubbed", voteId |-> station.next.voteId,
          durationMs |-> station.next.durationMs, version |-> station.version]
    ELSE LET cand == select_ready_song_candidate(station.voteId) IN
         IF cand = ""
         THEN [action |-> "noop", reason |-> "no_ready_song", voteId |-> station.next.voteId,
               durationMs |-> 0, version |-> station.version]
         ELSE [action |-> "updated", reason |-> "", voteId |-> cand,
               durationMs |-> songs[cand].durationMs, version |-> station.version]

\* the status _refresh_next_song gives the song it promotes to next
refresh_promoted_status == "queued"

\* POST /next/refresh, up to the end of the station transaction; a result without a
\* positive durationMs is not reconciled with the snapshot and the handler returns
refresh_next_song(p, trigger) ==
    /\ Free(p)
    /\ LET r == refresh_result IN
         /\ IF r.action = "updated"
            THEN /\ station' = [station EXCEPT !.next = [voteId |-> r.voteId,
                                                        durationMs |-> r.durationMs]]
                 /\ songs' = [songs EXCEPT ![r.voteId].status = refresh_promoted_status]
            ELSE UNCHANGED <<station, songs>>
         /\ IF r.durationMs <= 0
            THEN /\ response' = [NoResponse EXCEPT !.op = "refresh", !.status = "ok",
                                                   !.reason = r.reason]
                 /\ UNCHANGED procs
            ELSE /\ procs' = [procs EXCEPT ![p] = [Idle EXCEPT !.op = "refresh",
                                                               !.pc = "next_snap_get",
                                                               !.song = trigger, !.txn = r]]
                 /\ response' = NoResponse
    /\ UNCHANGED <<voteState, kvVars, published, tasks, clock, uuids, encodes, histVars, hubVars, bcVars, svcVars>>

RefreshResp(p) == Resp(p, "ok", IF procs[p].txn.action = "updated" THEN "updated"
                                ELSE procs[p].txn.reason)

\* _update_playback_next_song_snapshot: read the snapshot; raises when it is missing,
\* returns False when nextSong already equals the result
refresh_snap_get(p) ==
    /\ At(p, "refresh", "next_snap_get")
    /\ IF ~kvSnapshot.present
       THEN Return(p, Resp(p, "error", "snapshot_missing"))
       ELSE IF kvSnapshot.nextSong = [voteId |-> procs[p].txn.voteId,
                                      durationMs |-> procs[p].txn.durationMs]
       THEN Return(p, RefreshResp(p))
       ELSE /\ procs' = [procs EXCEPT ![p].snapshot = kvSnapshot, ![p].pc = "next_snap_set"]
            /\ response' = NoResponse
    /\ UNCHANGED <<dsVars, kvVars, published, tasks, clock, uuids, encodes, histVars, hubVars, bcVars, svcVars>>

\* _update_playback_next_song_snapshot: SET the modified snapshot (EX ttl, or the default
\* hour); then refresh_next_song publishes NEXT-SONG-CHANGED
refresh_snap_set(p) ==
    /\ At(p, "refresh", "next_snap_set")
    /\ kvSnapshot' = [procs[p].snapshot EXCEPT
                         !.nextSong = [voteId |-> procs[p].txn.voteId,
                                       durationMs |-> procs[p].txn.durationMs],
                         !.present = TRUE, !.ttl = TRUE]
    /\ published' = published \cup
          {publish_playback_event("NEXT-SONG-CHANGED", procs[p].txn.voteId,
                                  procs[p].txn.durationMs, procs[p].txn.version)}
    /\ Return(p, RefreshResp(p))
    /\ UNCHANGED <<dsVars, kvTally, kvVoted, tasks, clock, uuids, encodes, histVars, hubVars, bcVars, svcVars>>

\* ------------------------------------------------------- next-song-updater
\* _update_next_if_stubbed: the result the transaction returns
updater_result(vote_id) ==
    IF station.next.voteId # STUBBED_VOTE_ID
    THEN IF station.next.voteId = vote_id /\ station.next.durationMs > 0
         THEN [action |-> "already_updated", reason |-> "", voteId |-> vote_id,
               durationMs |-> station.next.durationMs, version |-> 0]
         ELSE [action |-> "skip_not_stubbed", reason |-> "", voteId |-> vote_id,
               durationMs |-> 0, version |-> 0]
    ELSE IF songs[vote_id].status = "absent" \/ songs[vote_id].durationMs <= 0
    THEN [action |-> "retryable_error", reason |-> "", voteId |-> vote_id,
          durationMs |-> 0, version |-> 0]
    ELSE [action |-> "updated", reason |-> "", voteId |-> vote_id,
          durationMs |-> songs[vote_id].durationMs, version |-> 0]

\* the status _update_next_if_stubbed leaves on the song it promotes: it does not write
\* the song document
updater_promoted_status(vote_id) == songs[vote_id].status

\* next_song_updater, up to the end of the station transaction
next_song_updater(p, vote_id) ==
    /\ Free(p)
    /\ LET r == updater_result(vote_id) IN
         /\ IF r.action = "updated"
            THEN /\ station' = [station EXCEPT !.next = [voteId |-> vote_id,
                                                        durationMs |-> r.durationMs]]
                 /\ songs' = [songs EXCEPT ![vote_id].status = updater_promoted_status(vote_id)]
            ELSE UNCHANGED <<station, songs>>
         /\ IF r.action \in {"updated", "already_updated"}
            THEN /\ procs' = [procs EXCEPT ![p] = [Idle EXCEPT !.op = "updater",
                                                               !.pc = "upd_snap_get",
                                                               !.song = vote_id, !.txn = r]]
                 /\ response' = NoResponse
            ELSE /\ response' = [NoResponse EXCEPT !.op = "updater",
                                     !.status = IF r.action = "retryable_error" THEN "error" ELSE "ok",
                                     !.reason = r.action]
                 /\ UNCHANGED procs
    /\ UNCHANGED <<voteState, kvVars, published, tasks, clock, uuids, encodes, histVars, hubVars, bcVars, svcVars>>

\* _update_redis_next_song: read the snapshot; raises when it is missing, skips the
\* write when nextSong is neither stubbed nor this song; the handler publishes either way
updater_snap_get(p) ==
    /\ At(p, "updater", "upd_snap_get")
    /\ IF ~kvSnapshot.present
       THEN /\ Return(p, Resp(p, "error", "snapshot_missing"))
            /\ UNCHANGED published
       ELSE IF kvSnapshot.nextSong.voteId \notin {STUBBED_VOTE_ID, procs[p].song}
       THEN /\ published' = published \cup
                   {publish_playback_event("NEXT-SONG-CHANGED", procs[p].song,
                                           procs[p].txn.durationMs, 0)}
            /\ Return(p, Resp(p, "ok", "skip_snapshot_not_stubbed"))
       ELSE /\ procs' = [procs EXCEPT ![p].snapshot = kvSnapshot, ![p].pc = "upd_snap_set"]
            /\ response' = NoResponse /\ UNCHANGED published
    /\ UNCHANGED <<dsVars, kvVars, tasks, clock, uuids, encodes, histVars, hubVars, bcVars, svcVars>>

\* _update_redis_next_song: read the TTL and SET the modified snapshot (EX ttl when the
\* key is still live, no expiry otherwise); then publish NEXT-SONG-CHANGED
updater_snap_set(p) ==
    /\ At(p, "updater", "upd_snap_set")
    /\ kvSnapshot' = [procs[p].snapshot EXCEPT
                         !.nextSong = [voteId |-> procs[p].song,
                                       durationMs |-> procs[p].txn.durationMs],
                         !.present = TRUE, !.ttl = kvSnapshot.present /\ kvSnapshot.ttl]
    /\ published' = published \cup
          {publish_playback_event("NEXT-SONG-CHANGED", procs[p].song,
                                  procs[p].txn.durationMs, 0)}
    /\ Return(p, Resp(p, "ok", procs[p].txn.action))
    /\ UNCHANGED <<dsVars, kvTally, kvVoted, tasks, clock, uuids, encodes, histVars, hubVars, bcVars, svcVars>>

\* ----------------------------------------------------------------- encoder
\* _persist_metadata: songs/{voteId}.set({durationMs, status: ready, createdAt})
persist_metadata(vote_id) ==
    /\ encodes < MaxEncodes
    /\ encodes' = encodes + 1
    /\ songs' = [songs EXCEPT ![vote_id] = [status |-> "ready",
                                            durationMs |-> SongDuration(vote_id),
                                            createdAt |-> encodes + 1]]
    /\ response' = NoResponse
    /\ UNCHANGED <<station, voteState, kvVars, published, tasks, procs, clock, uuids, histVars, hubVars, bcVars, svcVars>>

\* ---------------------------------------------------------- playback-stream
\* The SSE hub: one StreamState per process, the /events/playback and /events/vote
\* push handlers, and one /stream connection.  A step of a coroutine runs from one
\* suspension point (await, yield) to the next; the value a read returns is taken when
\* the read is issued and used when the coroutine resumes.  Tally values and the
\* listener count are left out: a TALLY_DELTA is modelled by the voteId it carries.
\* every event ever accepted is dropped as stale
is_stale_event_below_or_equal(event_version, last_playback_version) ==
    event_version <= last_playback_version

\* StreamState.is_stale_event
is_stale_event(event_version, last_playback_version) ==
    event_version < last_playback_version

\* StreamState.set_snapshot: the copy stays fresh until the song's endAt
set_snapshot(snapshot) == [fresh |-> TRUE, data |-> snapshot]

\* _build_state_snapshot: the snapshot composed from stations/main and voteState/current
build_state_snapshot(station_doc, vote_state) ==
    [present |-> TRUE, ttl |-> FALSE,
     currentSong |-> [voteId |-> station_doc.voteId, startAt |-> station_doc.startAt,
                      endAt |-> station_doc.endAt, durationMs |-> station_doc.durationMs],
     nextSong |-> [voteId |-> station_doc.next.voteId,
                   durationMs |-> station_doc.next.durationMs],
     poll |-> [voteId |-> vote_state.voteId, options |-> vote_state.options,
               version |-> vote_state.version, status |-> vote_state.status,
               endAt |-> vote_state.endAt]]

\* _get_state_snapshot answers from the in-process copy, without a read
CacheHit == stream.snapshot_cache.fresh /\ stream.snapshot_cache.data.present

\* what _get_state_snapshot returns when its reads are served at once: the in-process
\* copy while it is fresh, else the KV snapshot, else the snapshot rebuilt from DS
get_state_snapshot ==
    IF CacheHit THEN stream.snapshot_cache.data
    ELSE IF kvSnapshot.present THEN kvSnapshot
    ELSE build_state_snapshot(station, voteState)

\* _get_state_snapshot on a miss: GET pulsefm:playback:current is issued
FetchBegin(c) == [c EXCEPT !.fetch = "kv", !.snapshot = kvSnapshot]

\* the KV read found nothing, or the station read of _build_state_snapshot returned:
\* the next DS read is issued
FetchContinues(c) == (c.fetch = "kv" /\ ~c.snapshot.present) \/ c.fetch = "station"

FetchNext(c) ==
    IF c.fetch = "kv" THEN [c EXCEPT !.fetch = "station", !.station = station]
    ELSE [c EXCEPT !.fetch = "vote", !.state = voteState]

\* the read that ends _get_state_snapshot has returned
FetchCompletes(c) == (c.fetch = "kv" /\ c.snapshot.present) \/ c.fetch = "vote"

FetchResult(c) ==
    IF c.fetch = "kv" THEN c.snapshot ELSE build_state_snapshot(c.station, c.state)

\* _next_song_conflicts
next_song_conflicts(snapshot, vote_id, duration_ms) ==
    /\ snapshot.present
    /\ snapshot.nextSong # [voteId |-> vote_id, durationMs |-> duration_ms]

\* StreamState.reset_tallies
reset_tallies == [v \in PollIds |-> NoTallyCache]

\* StreamState.mark_tally_dirty: a copy that did not exist is created dirty
mark_tally_dirty(caches, vote_id) ==
    IF vote_id = 0 THEN caches ELSE [caches EXCEPT ![vote_id].state = "dirty"]

\* StreamState.is_tally_dirty
is_tally_dirty(vote_id) == vote_id # 0 /\ stream.tally_caches[vote_id].state = "dirty"

\* _get_tallies_cached answers without a read: no vote id, or a fresh copy
TallyHit(vote_id) == vote_id = 0 \/ stream.tally_caches[vote_id].state = "fresh"

TallyCached(vote_id) == IF vote_id = 0 THEN EmptyTally ELSE stream.tally_caches[vote_id].data

\* _get_tallies_cached on a miss, inside `async with state.tally_lock`: HGETALL of the
\* poll's tally key is issued and the coroutine suspends holding the lock
TallyFetchBegin(c) == [c EXCEPT !.fetch = "tally", !.tallies = kvTally[c.vote_id]]

\* HGETALL returned: the copy is replaced by a fresh one and tally_lock is released
TallyFetched(s, vote_id, tallies) ==
    [s EXCEPT !.tally_caches[vote_id] = [state |-> "fresh", data |-> tallies],
              !.tally_lock = FALSE]

TallyOf(tally, option) == IF option \in DOMAIN tally THEN tally[option] ELSE 0

tally_deltas_absolute(tallies, last_tallies) ==
    [o \in DOMAIN tallies \cup DOMAIN last_tallies |-> TallyOf(tallies, o)]

\* _check_timed_events: the deltas of a TALLY_DELTA, 0 for an option that is no longer
\* in the tallies
tally_deltas(tallies, last_tallies) ==
    [o \in DOMAIN tallies \cup DOMAIN last_tallies |->
        IF o \in DOMAIN tallies THEN tallies[o] - TallyOf(last_tallies, o) ELSE 0]

\* a client adds the deltas of a TALLY_DELTA to the tally it holds
ClientAdd(tally, deltas) ==
    [o \in DOMAIN tally \cup DOMAIN deltas |-> TallyOf(tally, o) + TallyOf(deltas, o)]

HubFree(h) ==
    handlers[h].op = "idle" /\ \A g \in HubProcs : handlers[g].op = "idle" => h <= g

\* the in-process copy outlives its staleness window (the song's endAt passes)
snapshot_cache_expires ==
    /\ stream.snapshot_cache.fresh
    /\ stream' = [stream EXCEPT !.snapshot_cache.fresh = FALSE]
    /\ sse' = NoSse
    /\ UNCHANGED <<handlers, loop, hubClock, songChanged, emitted, client, envVars, bcVars, svcVars>>

\* POST /events/playback with a CHANGEOVER message: _handle_changeover_event up to the
\* read of _get_state_snapshot
handle_changeover_event(h, e) ==
    /\ HubFree(h)
    /\ e \in published /\ e.event = "CHANGEOVER"
    /\ IF is_stale_event(e.version, stream.last_playback_version)
       THEN UNCHANGED <<stream, handlers>>
       ELSE /\ stream' = [stream EXCEPT !.last_playback_version = e.version,
                                        !.snapshot_cache = NoCache]
            /\ handlers' = [handlers EXCEPT ![h] =
                               FetchBegin([HubIdle EXCEPT !.op = "changeover",
                                                          !.version = e.version])]
    /\ sse' = NoSse
    /\ UNCHANGED <<loop, hubClock, songChanged, emitted, client, envVars, bcVars, svcVars>>

\* _build_state_snapshot inside a handler: the next DS read
handler_fetch_next(h) ==
    /\ handlers[h].op # "idle"
    /\ FetchContinues(handlers[h])
    /\ handlers' = [handlers EXCEPT ![h] = FetchNext(handlers[h])]
    /\ sse' = NoSse
    /\ UNCHANGED <<stream, loop, hubClock, songChanged, emitted, client, envVars, bcVars, svcVars>>

\* _handle_changeover_event after the snapshot arrived: set_snapshot, reset_tallies,
\* invalidate(poll.voteId, event_version)
changeover_invalidate(h) ==
    /\ handlers[h].op = "changeover"
    /\ FetchCompletes(handlers[h])
    /\ hubClock < MaxHubEvents
    /\ LET snapshot == FetchResult(handlers[h]) IN
         stream' = [stream EXCEPT
                       !.snapshot_cache = set_snapshot(snapshot),
                       !.tally_caches = reset_tallies,
                       !.last_invalidated = [voteId |-> snapshot.poll.voteId,
                                             ts |-> hubClock + 1,
                                             version |-> handlers[h].version]]
    /\ hubClock' = hubClock + 1
    /\ handlers' = [handlers EXCEPT ![h] = HubIdle]
    /\ sse' = NoSse
    /\ UNCHANGED <<loop, songChanged, emitted, client, envVars, bcVars, svcVars>>

\* POST /events/playback with a NEXT-SONG-CHANGED message: _handle_next_song_changed_event;
\* on an equal version it refreshes the snapshot only when nextSong disagrees
handle_next_song_changed_event(h, e) ==
    /\ HubFree(h)
    /\ e \in published /\ e.event = "NEXT-SONG-CHANGED"
    /\ IF is_stale_event(e.version, stream.last_playback_version)
       THEN UNCHANGED <<stream, handlers, hubClock>>
       ELSE IF e.version = stream.last_playback_version
       THEN IF next_song_conflicts(stream.snapshot_cache.data, e.song, e.durationMs)
            THEN /\ stream' = [stream EXCEPT !.snapshot_cache = NoCache]
                 /\ handlers' = [handlers EXCEPT ![h] =
                                    FetchBegin([HubIdle EXCEPT !.op = "next_song",
                                                               !.version = e.version])]
                 /\ UNCHANGED hubClock
            ELSE UNCHANGED <<stream, handlers, hubClock>>
       ELSE /\ hubClock < MaxHubEvents
            /\ stream' = [stream EXCEPT
                             !.last_playback_version = e.version,
                             !.last_next_song_changed = [voteId |-> e.song,
                                                         durationMs |-> e.durationMs,
                                                         version |-> e.version,
                                                         ts |-> hubClock + 1],
                             !.snapshot_cache = NoCache]
            /\ hubClock' = hubClock + 1
            /\ UNCHANGED handlers
    /\ sse' = NoSse
    /\ UNCHANGED <<loop, songChanged, emitted, client, envVars, bcVars, svcVars>>

\* the conflict branch after the snapshot arrived: record_next_song_changed with the
\* refreshed nextSong
next_song_refreshed(h) ==
    /\ handlers[h].op = "next_song"
    /\ FetchCompletes(handlers[h])
    /\ hubClock < MaxHubEvents
    /\ LET refreshed == FetchResult(handlers[h]) IN
         stream' = [stream EXCEPT
                       !.snapshot_cache = set_snapshot(refreshed),
                       !.last_next_song_changed = [voteId |-> refreshed.nextSong.voteId,
                                                   durationMs |-> refreshed.nextSong.durationMs,
                                                   version |-> handlers[h].version,
                                                   ts |-> hubClock + 1]]
    /\ hubClock' = hubClock + 1
    /\ handlers' = [handlers EXCEPT ![h] = HubIdle]
    /\ sse' = NoSse
    /\ UNCHANGED <<loop, songChanged, emitted, client, envVars, bcVars, svcVars>>

\* POST /events/vote with a CLOSE message: record_vote_closed
vote_event(e) ==
    /\ e \in published /\ e.event = "CLOSE"
    /\ hubClock < MaxHubEvents
    /\ stream' = [stream EXCEPT !.last_vote_closed = [voteId |-> e.voteId,
                                                      winnerOption |-> e.winnerOption,
                                                      ts |-> hubClock + 1]]
    /\ hubClock' = hubClock + 1
    /\ sse' = NoSse
    /\ UNCHANGED <<handlers, loop, songChanged, emitted, client, envVars, bcVars, svcVars>>

\* ---- the connection
\* _event_stream after its snapshot arrived: HELLO is sent
stream_hello(snapshot, cache) ==
    /\ stream' = [stream EXCEPT !.snapshot_cache = cache]
    /\ loop' = [NoLoop EXCEPT !.op = "hello", !.vote_id = snapshot.poll.voteId,
                              !.snapshot = snapshot]
    /\ sse' = Sse("HELLO", snapshot.poll.voteId, "", snapshot.poll.version)

\* GET /stream: _event_stream starts with _get_state_snapshot
stream_votes ==
    /\ loop.op = "closed"
    /\ IF CacheHit
       THEN stream_hello(stream.snapshot_cache.data, stream.snapshot_cache)
       ELSE /\ loop' = FetchBegin([NoLoop EXCEPT !.op = "connect"])
            /\ sse' = NoSse
            /\ UNCHANGED stream
    /\ UNCHANGED <<handlers, hubClock, songChanged, emitted, client, envVars, bcVars, svcVars>>

\* _build_state_snapshot inside the connection: the next DS read
loop_fetch_next ==
    /\ loop.fetch # ""
    /\ FetchContinues(loop)
    /\ loop' = FetchNext(loop)
    /\ sse' = NoSse
    /\ UNCHANGED <<stream, handlers, hubClock, songChanged, emitted, client, envVars, bcVars, svcVars>>

stream_connected ==
    /\ loop.op = "connect"
    /\ FetchCompletes(loop)
    /\ stream_hello(FetchResult(loop), set_snapshot(FetchResult(loop)))
    /\ UNCHANGED <<handlers, hubClock, songChanged, emitted, client, envVars, bcVars, svcVars>>

\* _event_stream after HELLO: mark_tally_dirty, then _get_tallies_cached; without a
\* vote id the initial TALLY_SNAPSHOT is sent at once with no tallies
stream_initial_tallies ==
    /\ loop.op = "hello" /\ loop.fetch = ""
    /\ IF loop.vote_id = 0
       THEN /\ loop' = [loop EXCEPT !.op = "init", !.snapshot = NoSnapshot]
            /\ sse' = TallySnapshotSse(loop.vote_id, loop.snapshot)
            /\ client' = [voteId |-> loop.vote_id, tally |-> EmptyTally, lost |-> FALSE]
            /\ UNCHANGED stream
       ELSE /\ ~stream.tally_lock
            /\ stream' = [stream EXCEPT
                             !.tally_caches = mark_tally_dirty(@, loop.vote_id),
                             !.tally_lock = TRUE]
            /\ loop' = TallyFetchBegin(loop)
            /\ sse' = NoSse
            /\ UNCHANGED client
    /\ UNCHANGED <<handlers, hubClock, songChanged, emitted, envVars, bcVars, svcVars>>

\* the tallies arrived: the initial TALLY_SNAPSHOT is sent, _LoopState starts with them
stream_initial_tallies_fetched ==
    /\ loop.op = "hello" /\ loop.fetch = "tally"
    /\ stream' = TallyFetched(stream, loop.vote_id, loop.tallies)
    /\ loop' = [loop EXCEPT !.op = "init", !.fetch = "", !.last_tallies = loop.tallies,
                            !.tallies = EmptyTally, !.snapshot = NoSnapshot]
    /\ sse' = TallySnapshotSse(loop.vote_id, loop.snapshot)
    /\ client' = [voteId |-> loop.vote_id, tally |-> loop.tallies, lost |-> FALSE]
    /\ UNCHANGED <<handlers, hubClock, songChanged, emitted, envVars, bcVars, svcVars>>

\* StreamState.stream_event_markers(_utc_ms()): the loop starts at the marker check
stream_event_markers ==
    /\ loop.op = "init"
    /\ loop' = [loop EXCEPT
                   !.op = "check_invalidated",
                   !.markers = [last_invalidated_at |->
                                    Max(hubClock, stream.last_invalidated.ts),
                                last_vote_closed_at |->
                                    Max(hubClock, stream.last_vote_closed.ts),
                                last_next_song_changed_at |->
                                    Max(hubClock, stream.last_next_song_changed.ts)]]
    /\ sse' = NoSse
    /\ UNCHANGED <<stream, handlers, hubClock, songChanged, emitted, client, envVars, bcVars, svcVars>>

\* _check_marker_events, first marker, after its snapshot arrived: SONG_CHANGED carries
\* state.last_invalidated as it is now; the connection takes the snapshot's poll, forgets
\* its last tallies and sets last_snapshot_at to 0, which makes a TALLY_SNAPSHOT due
song_changed(snapshot, cache) ==
    /\ stream' = [stream EXCEPT !.snapshot_cache = cache]
    /\ sse' = Sse("SONG_CHANGED", stream.last_invalidated.voteId, "",
                  stream.last_invalidated.version)
    /\ songChanged' = Max(songChanged, stream.last_invalidated.version)
    /\ emitted' = emitted \cup {<<"SONG_CHANGED", stream.last_invalidated.version>>}
    /\ loop' = [loop EXCEPT
                   !.op = "check_vote_closed", !.fetch = "",
                   !.vote_id = IF snapshot.poll.voteId # 0 THEN snapshot.poll.voteId ELSE @,
                   !.last_tallies = IF snapshot.poll.voteId # 0 THEN EmptyTally ELSE @,
                   !.snapshot_due = IF snapshot.poll.voteId # 0 THEN TRUE ELSE @,
                   !.markers.last_invalidated_at =
                       IF loop.fetch = "" THEN stream.last_invalidated.ts ELSE @]
    /\ UNCHANGED client

InvalidatedPending == stream.last_invalidated.ts > loop.markers.last_invalidated_at
VoteClosedPending == stream.last_vote_closed.ts > loop.markers.last_vote_closed_at
NextSongChangedPending ==
    stream.last_next_song_changed.ts > loop.markers.last_next_song_changed_at

\* the checks of one loop iteration, in their order; a check that has nothing to send
\* falls through to the next one without suspending
Checks == <<"check_invalidated", "check_vote_closed", "check_next_song_changed",
            "tally_snapshot", "tally_delta", "heartbeat">>

CheckIndex(op) == CHOOSE i \in 1..Len(Checks) : Checks[i] = op

\* the loop is at or before check op, and no check between has something to send: no
\* marker is pending and no TALLY_SNAPSHOT is due
Reaches(op) ==
    /\ loop.fetch = ""
    /\ \E i \in 1..Len(Checks) : Checks[i] = loop.op
    /\ CheckIndex(loop.op) <= CheckIndex(op)
    /\ \A i \in CheckIndex(loop.op)..(CheckIndex(op) - 1) :
          /\ i = 1 => ~InvalidatedPending
          /\ i = 2 => ~VoteClosedPending
          /\ i = 3 => ~NextSongChangedPending
          /\ i = 4 => ~loop.snapshot_due

\* _check_marker_events: a new invalidation
check_invalidated ==
    /\ Reaches("check_invalidated")
    /\ InvalidatedPending
    /\ IF CacheHit
       THEN song_changed(stream.snapshot_cache.data, stream.snapshot_cache)
       ELSE /\ loop' = FetchBegin([loop EXCEPT
                          !.op = "check_invalidated",
                          !.markers.last_invalidated_at = stream.last_invalidated.ts])
            /\ sse' = NoSse
            /\ UNCHANGED <<stream, songChanged, emitted, client>>
    /\ UNCHANGED <<handlers, hubClock, envVars, bcVars, svcVars>>

check_invalidated_fetched ==
    /\ loop.op = "check_invalidated"
    /\ FetchCompletes(loop)
    /\ song_changed(FetchResult(loop), set_snapshot(FetchResult(loop)))
    /\ UNCHANGED <<handlers, hubClock, envVars, bcVars, svcVars>>

\* _check_marker_events: a new vote close
check_vote_closed ==
    /\ Reaches("check_vote_closed")
    /\ VoteClosedPending
    /\ loop' = [loop EXCEPT !.op = "check_next_song_changed",
                            !.markers.last_vote_closed_at = stream.last_vote_closed.ts]
    /\ sse' = Sse("VOTE_CLOSED", stream.last_vote_closed.voteId, "", 0)
    /\ emitted' = emitted \cup {<<"VOTE_CLOSED", stream.last_vote_closed.voteId>>}
    /\ UNCHANGED <<stream, handlers, hubClock, songChanged, client, envVars, bcVars, svcVars>>

\* _check_marker_events: a new next-song change
check_next_song_changed ==
    /\ Reaches("check_next_song_changed")
    /\ NextSongChangedPending
    /\ loop' = [loop EXCEPT !.op = "tally_snapshot",
                            !.markers.last_next_song_changed_at =
                                stream.last_next_song_changed.ts]
    /\ sse' = Sse("NEXT-SONG-CHANGED", 0, stream.last_next_song_changed.voteId,
                  stream.last_next_song_changed.version)
    /\ UNCHANGED <<stream, handlers, hubClock, songChanged, emitted, client, envVars, bcVars, svcVars>>

\* _check_timed_events, TALLY_SNAPSHOT with its tallies at hand: _get_state_snapshot,
\* then the event is sent and the tallies become the connection's last tallies
tally_snapshot_state(s, tallies) ==
    /\ stream' = s
    /\ IF CacheHit
       THEN /\ loop' = [loop EXCEPT !.op = "tally_delta", !.fetch = "",
                                    !.last_tallies = tallies, !.tallies = EmptyTally,
                                    !.snapshot_due = FALSE]
            /\ sse' = TallySnapshotSse(loop.vote_id, stream.snapshot_cache.data)
            /\ client' = [voteId |-> loop.vote_id, tally |-> tallies, lost |-> FALSE]
       ELSE /\ loop' = FetchBegin([loop EXCEPT !.op = "tally_snapshot",
                                               !.tallies = tallies])
            /\ sse' = NoSse
            /\ UNCHANGED client

\* _check_timed_events: the tally snapshot interval has passed; _get_tallies_cached
tally_snapshot ==
    /\ Reaches("tally_snapshot")
    /\ IF TallyHit(loop.vote_id)
       THEN tally_snapshot_state(stream, TallyCached(loop.vote_id))
       ELSE /\ ~stream.tally_lock
            /\ stream' = [stream EXCEPT !.tally_lock = TRUE]
            /\ loop' = TallyFetchBegin([loop EXCEPT !.op = "tally_snapshot"])
            /\ sse' = NoSse
            /\ UNCHANGED client
    /\ UNCHANGED <<handlers, hubClock, songChanged, emitted, envVars, bcVars, svcVars>>

\* the tallies of the TALLY_SNAPSHOT arrived
tally_snapshot_tallies ==
    /\ loop.op = "tally_snapshot" /\ loop.fetch = "tally"
    /\ tally_snapshot_state(TallyFetched(stream, loop.vote_id, loop.tallies), loop.tallies)
    /\ UNCHANGED <<handlers, hubClock, songChanged, emitted, envVars, bcVars, svcVars>>

\* the snapshot of the TALLY_SNAPSHOT arrived
tally_snapshot_fetched ==
    /\ loop.op = "tally_snapshot"
    /\ FetchCompletes(loop)
    /\ stream' = [stream EXCEPT !.snapshot_cache = set_snapshot(FetchResult(loop))]
    /\ loop' = [loop EXCEPT !.op = "tally_delta", !.fetch = "",
                            !.last_tallies = loop.tallies, !.tallies = EmptyTally,
                            !.snapshot_due = FALSE]
    /\ sse' = TallySnapshotSse(loop.vote_id, FetchResult(loop))
    /\ client' = [voteId |-> loop.vote_id, tally |-> loop.tallies, lost |-> FALSE]
    /\ UNCHANGED <<handlers, hubClock, songChanged, emitted, envVars, bcVars, svcVars>>

\* _check_timed_events, TALLY_DELTA with its tallies at hand: the deltas against the
\* connection's last tallies are sent and the tallies become the last tallies
tally_delta_send(s, tallies) ==
    /\ stream' = s
    /\ loop' = [loop EXCEPT !.op = "heartbeat", !.fetch = "", !.last_tallies = tallies,
                            !.tallies = EmptyTally]
    /\ sse' = Sse("TALLY_DELTA", loop.vote_id, "", 0)
    /\ client' = [voteId |-> loop.vote_id,
                  tally |-> ClientAdd(client.tally, tally_deltas(tallies, loop.last_tallies)),
                  lost |-> client.lost \/ ~(DOMAIN loop.last_tallies \subseteq DOMAIN tallies)]

\* _check_timed_events: the delta interval has passed; _get_tallies_cached
tally_delta ==
    /\ Reaches("tally_delta")
    /\ IF TallyHit(loop.vote_id)
       THEN tally_delta_send(stream, TallyCached(loop.vote_id))
       ELSE /\ ~stream.tally_lock
            /\ stream' = [stream EXCEPT !.tally_lock = TRUE]
            /\ loop' = TallyFetchBegin([loop EXCEPT !.op = "tally_delta"])
            /\ sse' = NoSse
            /\ UNCHANGED client
    /\ UNCHANGED <<handlers, hubClock, songChanged, emitted, envVars, bcVars, svcVars>>

\* the tallies of the TALLY_DELTA arrived
tally_delta_fetched ==
    /\ loop.op = "tally_delta" /\ loop.fetch = "tally"
    /\ tally_delta_send(TallyFetched(stream, loop.vote_id, loop.tallies), loop.tallies)
    /\ UNCHANGED <<handlers, hubClock, songChanged, emitted, envVars, bcVars, svcVars>>

\* the tally copy outlives TALLY_CACHE_STALENESS_MS
tally_cache_expires(vote_id) ==
    /\ stream.tally_caches[vote_id].state = "fresh"
    /\ stream' = [stream EXCEPT !.tally_caches[vote_id].state = "stale"]
    /\ sse' = NoSse
    /\ UNCHANGED <<handlers, loop, hubClock, songChanged, emitted, client, envVars, bcVars, svcVars>>

\* POST /events/tally: ignored while the copy is dirty, else the KV snapshot is read
tally_event(h, e) ==
    /\ HubFree(h)
    /\ e \in published /\ e.event = "TALLY"
    /\ IF is_tally_dirty(e.voteId)
       THEN UNCHANGED handlers
       ELSE handlers' = [handlers EXCEPT ![h] =
                            [HubIdle EXCEPT !.op = "tally", !.voteId = e.voteId,
                                            !.snapshot = kvSnapshot]]
    /\ sse' = NoSse
    /\ UNCHANGED <<stream, loop, hubClock, songChanged, emitted, client, envVars, bcVars, svcVars>>

\* tally_event after the snapshot arrived: the copy of the current poll is marked dirty
tally_event_marked(h) ==
    /\ handlers[h].op = "tally"
    /\ stream' = [stream EXCEPT !.tally_caches =
                     IF handlers[h].snapshot.present
                        /\ handlers[h].snapshot.poll.voteId = handlers[h].voteId
                     THEN mark_tally_dirty(@, handlers[h].voteId) ELSE @]
    /\ handlers' = [handlers EXCEPT ![h] = HubIdle]
    /\ sse' = NoSse
    /\ UNCHANGED <<loop, hubClock, songChanged, emitted, client, envVars, bcVars, svcVars>>

\* _check_timed_events: the heartbeat interval has passed
heartbeat ==
    /\ Reaches("heartbeat")
    /\ loop' = [loop EXCEPT !.op = "sleep"]
    /\ sse' = Sse("HEARTBEAT", loop.vote_id, "", 0)
    /\ UNCHANGED <<stream, handlers, hubClock, songChanged, emitted, client, envVars, bcVars, svcVars>>

\* nothing more to send in this iteration: asyncio.sleep(0.05), then the next iteration
loop_sleep ==
    /\ \/ loop.op = "sleep"
       \/ Reaches("heartbeat")
    /\ loop' = [loop EXCEPT !.op = "check_invalidated"]
    /\ sse' = NoSse
    /\ UNCHANGED <<stream, handlers, hubClock, songChanged, emitted, client, envVars, bcVars, svcVars>>


\* -------------------------------------------------------- stream broadcaster
\* backend StreamBroadcaster: the registry of subscriber queues and the fan-out of audio
\* chunks.  No holder of _lock awaits inside it, so the lock is free whenever a
\* coroutine runs, `async with self._lock` never suspends, and each method runs in
\* one step.  A chunk is modelled by its sequence number.
queue_full_never(queue) == FALSE

\* asyncio.Queue.full() of a queue built with maxsize = queue_maxsize
queue_full(queue) == Len(queue) >= queue_maxsize

\* the subscribers publish_chunk drops: put_nowait raised QueueFull
dropped_subscribers == {i \in DOMAIN subscribers : queue_full(subscribers[i])}

broadcaster_start ==
    /\ ~running
    /\ running' = TRUE
    /\ subscribers' = [i \in {} |-> <<>>]
    /\ subscriber_count' = 0
    /\ UNCHANGED <<subscribed, chunks, lastDrop, envVars, hubVars, svcVars>>

\* the None sentinel is put on every queue that has room, then the registry is cleared
broadcaster_stop ==
    /\ running
    /\ running' = FALSE
    /\ subscribers' = [i \in {} |-> <<>>]
    /\ subscriber_count' = 0
    /\ UNCHANGED <<subscribed, chunks, lastDrop, envVars, hubVars, svcVars>>

\* a chunk published while the broadcaster is stopped is ignored
publish_chunk ==
    /\ chunks < MaxChunks
    /\ IF ~running
       THEN UNCHANGED <<subscribers, subscriber_count, chunks, lastDrop>>
       ELSE LET chunk == chunks + 1
                dropped == dropped_subscribers
            IN  /\ subscribers' = [i \in DOMAIN subscribers \ dropped |->
                                      Append(subscribers[i], chunk)]
                /\ subscriber_count' = subscriber_count - Cardinality(dropped)
                /\ chunks' = chunk
                /\ lastDrop' = IF dropped # {} THEN chunk ELSE lastDrop
    /\ UNCHANGED <<running, subscribed, envVars, hubVars, svcVars>>

\* raises RuntimeError when the broadcaster is not running
subscribe ==
    /\ running
    /\ subscribed < MaxSubscribers
    /\ subscribed' = subscribed + 1
    /\ subscribers' = [i \in DOMAIN subscribers \cup {subscribed + 1} |->
                          IF i \in DOMAIN subscribers THEN subscribers[i] ELSE <<>>]
    /\ subscriber_count' = subscriber_count + 1
    /\ UNCHANGED <<running, chunks, lastDrop, envVars, hubVars, svcVars>>

unsubscribe(subscriber_id) ==
    /\ subscriber_id \in DOMAIN subscribers
    /\ subscribers' = [i \in DOMAIN subscribers \ {subscriber_id} |-> subscribers[i]]
    /\ subscriber_count' = subscriber_count - 1
    /\ UNCHANGED <<running, subscribed, chunks, lastDrop, envVars, hubVars, svcVars>>

\* the listener takes the oldest chunk off the queue subscribe returned
queue_get(subscriber_id) ==
    /\ subscriber_id \in DOMAIN subscribers
    /\ subscribers[subscriber_id] # <<>>
    /\ subscribers' = [subscribers EXCEPT ![subscriber_id] = Tail(@)]
    /\ UNCHANGED <<running, subscriber_count, subscribed, chunks, lastDrop, envVars, hubVars, svcVars>>

\* ------------------------------------------------------ modal-dispatch-service
\* the slots are interchangeable: a delivery is taken by the lowest free one
dispatcher_free(d) ==
    /\ dispatchers[d].pc = "idle"
    /\ \A q \in Dispatchers : dispatchers[q].pc = "idle" => d <= q

dispatcher_at(d, pc) == dispatchers[d].pc = pc

dispatcher_goto(d, pc) == dispatchers' = [dispatchers EXCEPT ![d].pc = pc]

\* the try block is left with this status; the finally clause runs next
dispatcher_finally(d, status) ==
    dispatchers' = [dispatchers EXCEPT ![d].pc = "release", ![d].status = status]

\* POST /events/vote with a CLOSE message: _handle_close_event up to the answer of
\* _is_close_done (GET pulsefm:modal:close:{vote_id}:done)
handle_close_event(d, vote_id, winner_option) ==
    /\ dispatcher_free(d)
    /\ deliveries < MaxDeliveries
    /\ deliveries' = deliveries + 1
    /\ IF vote_id \in close_done
       THEN /\ dispatch_status' = "already_processed"
            /\ UNCHANGED dispatchers
       ELSE /\ dispatchers' = [dispatchers EXCEPT ![d] =
                   [pc |-> "acquire", vote_id |-> vote_id,
                    winner_option |-> winner_option, status |-> ""]]
            /\ dispatch_status' = ""
    /\ UNCHANGED <<close_done, close_lock, min_containers, dispatched>>
    /\ UNCHANGED <<envVars, hubVars, bcVars, vaVars>>

\* _acquire_close_lock: SET pulsefm:modal:close:{vote_id}:lock "1" EX .. NX
acquire_close_lock(d) ==
    /\ dispatcher_at(d, "acquire")
    /\ IF dispatchers[d].vote_id \in close_lock
       THEN /\ dispatchers' = [dispatchers EXCEPT ![d] = NoDispatcher]
            /\ dispatch_status' = "in_progress"
            /\ UNCHANGED close_lock
       ELSE /\ close_lock' = close_lock \cup {dispatchers[d].vote_id}
            /\ dispatcher_goto(d, "listeners")
            /\ dispatch_status' = ""
    /\ UNCHANGED <<close_done, min_containers, dispatched, deliveries>>
    /\ UNCHANGED <<envVars, hubVars, bcVars, vaVars>>

\* _has_active_listeners: GET of the heartbeat key, which listeners keep alive
has_active_listeners(d, active) ==
    /\ dispatcher_at(d, "listeners")
    /\ dispatcher_goto(d, IF active THEN "scale_up" ELSE "skip")
    /\ dispatch_status' = ""
    /\ UNCHANGED <<close_done, close_lock, min_containers, dispatched, deliveries>>
    /\ UNCHANGED <<envVars, hubVars, bcVars, vaVars>>

\* no listeners: _mark_close_done, then return "skipped"
mark_close_skipped(d) ==
    /\ dispatcher_at(d, "skip")
    /\ close_done' = close_done \cup {dispatchers[d].vote_id}
    /\ dispatcher_finally(d, "skipped")
    /\ dispatch_status' = ""
    /\ UNCHANGED <<close_lock, min_containers, dispatched, deliveries>>
    /\ UNCHANGED <<envVars, hubVars, bcVars, vaVars>>

\* _set_min_instances(1): the Modal call succeeds (ok) or raises
set_min_instances(d, ok) ==
    /\ dispatcher_at(d, "scale_up")
    /\ IF ok
       THEN /\ min_containers' = 1
            /\ dispatcher_goto(d, "dispatch")
       ELSE /\ dispatcher_finally(d, "error")
            /\ UNCHANGED min_containers
    /\ dispatch_status' = ""
    /\ UNCHANGED <<close_done, close_lock, dispatched, deliveries>>
    /\ UNCHANGED <<envVars, hubVars, bcVars, vaVars>>

\* _dispatch_modal_generation in a worker thread: method.remote(..., vote_id=vote_id)
dispatch_modal_generation(d, ok) ==
    /\ dispatcher_at(d, "dispatch")
    /\ IF ok
       THEN /\ dispatched' = [dispatched EXCEPT ![dispatchers[d].vote_id] = @ + 1]
            /\ dispatcher_goto(d, "scale_down")
       ELSE /\ dispatcher_finally(d, "error")
            /\ UNCHANGED dispatched
    /\ dispatch_status' = ""
    /\ UNCHANGED <<close_done, close_lock, min_containers, deliveries>>
    /\ UNCHANGED <<envVars, hubVars, bcVars, vaVars>>

\* _set_min_instances_zero_with_retry: scaled down within the retry horizon (ok),
\* or the last error is raised
set_min_instances_zero_with_retry(d, ok) ==
    /\ dispatcher_at(d, "scale_down")
    /\ IF ok
       THEN /\ min_containers' = 0
            /\ dispatcher_goto(d, "mark_done")
       ELSE /\ dispatcher_finally(d, "error")
            /\ UNCHANGED min_containers
    /\ dispatch_status' = ""
    /\ UNCHANGED <<close_done, close_lock, dispatched, deliveries>>
    /\ UNCHANGED <<envVars, hubVars, bcVars, vaVars>>

\* _mark_close_done: SET pulsefm:modal:close:{vote_id}:done "1" EX .., then return "ok"
mark_close_done(d) ==
    /\ dispatcher_at(d, "mark_done")
    /\ close_done' = close_done \cup {dispatchers[d].vote_id}
    /\ dispatcher_finally(d, "ok")
    /\ dispatch_status' = ""
    /\ UNCHANGED <<close_lock, min_containers, dispatched, deliveries>>
    /\ UNCHANGED <<envVars, hubVars, bcVars, vaVars>>

\* finally: _release_close_lock (DEL of the lock key), then the handler answers
release_close_lock(d) ==
    /\ dispatcher_at(d, "release")
    /\ close_lock' = close_lock \ {dispatchers[d].vote_id}
    /\ dispatch_status' = dispatchers[d].status
    /\ dispatchers' = [dispatchers EXCEPT ![d] = NoDispatcher]
    /\ UNCHANGED <<close_done, min_containers, dispatched, deliveries>>
    /\ UNCHANGED <<envVars, hubVars, bcVars, vaVars>>

\* Redis drops the lock key when its EX runs out
expire_close_lock(vote_id) ==
    /\ vote_id \in close_lock
    /\ close_lock' = close_lock \ {vote_id}
    /\ UNCHANGED <<close_done, dispatchers, dispatch_status, min_containers,
                   dispatched, deliveries>>
    /\ UNCHANGED <<envVars, hubVars, bcVars, vaVars>>

\* ------------------------------------------------------------ vote-api dedupe
dedupe_key_unseparated(window_id, session_id) ==
    <<"v", "o", "t", "e", ":">> \o window_id \o session_id

\* redis_keys.dedupe_key: f"vote:{window_id}:{session_id}"
dedupe_key(window_id, session_id) ==
    <<"v", "o", "t", "e", ":">> \o window_id \o <<":">> \o session_id

\* SET key value NX: the reply is truthy only where the key does not exist
set_nx_reply(store, key) == \A e \in store : e.key # key

set_nx(store, key, value) ==
    IF set_nx_reply(store, key)
    THEN store \cup {[key |-> key, value |-> value]}
    ELSE store

\* client.set(dedupe_key(window_id, session_id), option, nx=True, ex=..)
dedupe_set(window_id, session_id, option) ==
    LET key == dedupe_key(window_id, session_id)
        ok == set_nx_reply(dedupe, key)
    IN  /\ dedupe' = set_nx(dedupe, key, option)
        /\ attempt' = [window_id |-> window_id, session_id |-> session_id,
                       option |-> option, ok |-> ok]
        /\ wins' = [wins EXCEPT ![<<window_id, session_id>>] = @ + IF ok THEN 1 ELSE 0]
        /\ UNCHANGED <<envVars, hubVars, bcVars, mdVars>>

\* Redis drops the key when its EX runs out
dedupe_expire(key) ==
    /\ \E e \in dedupe : e.key = key
    /\ dedupe' = {e \in dedupe : e.key # key}
    /\ wins' = [p \in DedupePairs |->
                   IF dedupe_key(p[1], p[2]) = key THEN 0 ELSE wins[p]]
    /\ UNCHANGED attempt
    /\ UNCHANGED <<envVars, hubVars, bcVars, mdVars>>

\* ------------------------------------------------------------ specification
Tick == \E p \in Procs, v \in Versions : tick_rotate_song(p, v)
TickRotateVote == \E p \in Procs : tick_rotate_vote(p)
CloseVoteTallies == \E p \in Procs : close_vote_tallies(p)
CloseVoteSet == \E p \in Procs : close_vote_set(p)
CloseVoteSnapGet == \E p \in Procs : close_vote_snap_get(p)
CloseVoteSnapSet == \E p \in Procs : close_vote_snap_set(p)
TickOpenVote == \E p \in Procs : tick_open_vote(p)
TickRedisOpen == \E p \in Procs : tick_redis_open(p)
TickPublishSchedule == \E p \in Procs : tick_publish_schedule(p)
CloseVote == \E p \in Procs, v \in PollIds, n \in Versions : close_vote(p, v, n)
Vote == \E p \in Procs, v \in PollIds, s \in Sessions, o \in Catalog : tally_function(p, v, s, o)
VoteHexists == \E p \in Procs : tally_function_hexists(p)
VoteEval == \E p \in Procs : record_vote_atomic(p)
RefreshNextSong == \E p \in Procs, s \in SongIds : refresh_next_song(p, s)
RefreshSnapGet == \E p \in Procs : refresh_snap_get(p)
RefreshSnapSet == \E p \in Procs : refresh_snap_set(p)
NextSongUpdater == \E p \in Procs, s \in SongIds : next_song_updater(p, s)
UpdaterSnapGet == \E p \in Procs : updater_snap_get(p)
UpdaterSnapSet == \E p \in Procs : updater_snap_set(p)
PersistMetadata == \E s \in SongIds : persist_metadata(s)
ExpireSnapshot == expire_snapshot
Startup == ensure_playback_tick_scheduled

\* the dispatch service alone: CLOSE deliveries of the polls, duplicated and
\* concurrent, with Modal calls that succeed or raise
NextDispatch ==
    \/ \E d \in Dispatchers, v \in PollIds, o \in vote_options : handle_close_event(d, v, o)
    \/ \E d \in Dispatchers : acquire_close_lock(d)
    \/ \E d \in Dispatchers, active \in BOOLEAN : has_active_listeners(d, active)
    \/ \E d \in Dispatchers : mark_close_skipped(d)
    \/ \E d \in Dispatchers, ok \in BOOLEAN : set_min_instances(d, ok)
    \/ \E d \in Dispatchers, ok \in BOOLEAN : dispatch_modal_generation(d, ok)
    \/ \E d \in Dispatchers, ok \in BOOLEAN : set_min_instances_zero_with_retry(d, ok)
    \/ \E d \in Dispatchers : mark_close_done(d)
    \/ \E d \in Dispatchers : release_close_lock(d)
    \/ \E v \in PollIds : expire_close_lock(v)

SpecDispatch == Init /\ [][NextDispatch]_vars

\* the dedupe keys alone: set-if-absent attempts of every pair, and expiry
NextDedupe ==
    \/ \E w \in window_ids, s \in session_ids, o \in vote_options : dedupe_set(w, s, o)
    \/ \E p \in DedupePairs : dedupe_expire(dedupe_key(p[1], p[2]))

SpecDedupe == Init /\ [][NextDedupe]_vars

Next ==
    \/ Tick
    \/ TickRotateVote
    \/ CloseVoteTallies
    \/ CloseVoteSet
    \/ CloseVoteSnapGet
    \/ CloseVoteSnapSet
    \/ TickOpenVote
    \/ TickRedisOpen
    \/ TickPublishSchedule
    \/ CloseVote
    \/ Vote
    \/ VoteHexists
    \/ VoteEval
    \/ RefreshNextSong
    \/ RefreshSnapGet
    \/ RefreshSnapSet
    \/ NextSongUpdater
    \/ UpdaterSnapGet
    \/ UpdaterSnapSet
    \/ PersistMetadata
    \/ ExpireSnapshot
    \/ Startup
    \/ \E h \in HubProcs, e \in published : handle_changeover_event(h, e)
    \/ \E h \in HubProcs : handler_fetch_next(h)
    \/ \E h \in HubProcs : changeover_invalidate(h)
    \/ \E h \in HubProcs, e \in published : handle_next_song_changed_event(h, e)
    \/ \E h \in HubProcs : next_song_refreshed(h)
    \/ \E e \in published : vote_event(e)
    \/ snapshot_cache_expires
    \/ stream_votes
    \/ loop_fetch_next
    \/ stream_connected
    \/ stream_initial_tallies
    \/ stream_initial_tallies_fetched
    \/ stream_event_markers
    \/ check_invalidated
    \/ check_invalidated_fetched
    \/ check_vote_closed
    \/ check_next_song_changed
    \/ tally_snapshot
    \/ tally_snapshot_tallies
    \/ tally_snapshot_fetched
    \/ tally_delta
    \/ tally_delta_fetched
    \/ heartbeat
    \/ loop_sleep
    \/ \E v \in PollIds : tally_cache_expires(v)
    \/ \E h \in HubProcs, e \in published : tally_event(h, e)
    \/ \E h \in HubProcs : tally_event_marked(h)
    \/ \E v \in PollIds : expire_tally(v)
    \/ broadcaster_start
    \/ broadcaster_stop
    \/ publish_chunk
    \/ subscribe
    \/ \E i \in 1..MaxSubscribers : unsubscribe(i)
    \/ \E i \in 1..MaxSubscribers : queue_get(i)
    \/ NextDispatch
    \/ NextDedupe

Spec == Init /\ [][Next]_vars

\* the broadcaster alone: listeners come, read and go while chunks are published
NextBroadcaster ==
    \/ broadcaster_start
    \/ broadcaster_stop
    \/ publish_chunk
    \/ subscribe
    \/ \E i \in 1..MaxSubscribers : unsubscribe(i)
    \/ \E i \in 1..MaxSubscribers : queue_get(i)

SpecBroadcaster == Init /\ [][NextBroadcaster]_vars

\* the playback queue delivers an enqueued tick(v), at least once, also while an earlier
\* delivery of it runs; tick(v + 1) is delayed by the song's duration, so it is not
\* delivered while tick(v) runs
TickDelivery ==
    \E p \in Procs, v \in Versions :
        /\ TickTask(v) \in tasks
        /\ \A q \in Procs : procs[q].op = "tick" => procs[q].version = v
        /\ tick_rotate_song(p, v)

\* the playback queue delivers an enqueued /vote/close task, at least once
CloseDelivery ==
    \E p \in Procs, t \in tasks :
        /\ t.url = "/vote/close"
        /\ close_vote(p, t.voteId, t.version)

\* the service driven by its task queue alone: startup, tick and /vote/close
\* deliveries, snapshot expiry
NextQueue ==
    \/ Startup
    \/ TickDelivery
    \/ TickRotateVote
    \/ CloseVoteTallies
    \/ CloseVoteSet
    \/ CloseVoteSnapGet
    \/ CloseVoteSnapSet
    \/ TickOpenVote
    \/ TickRedisOpen
    \/ TickPublishSchedule
    \/ CloseDelivery
    \/ ExpireSnapshot

SpecQueue == Init /\ [][NextQueue]_vars

\* the same under the scheduling the service runs with: a handler that can take its
\* next step takes it, and the queue keeps delivering a task that is enqueued; the
\* expiry of the snapshot key may happen but need not
FairSpecQueue ==
    /\ SpecQueue
    /\ WF_vars(Startup)
    /\ WF_vars(TickDelivery)
    /\ WF_vars(CloseDelivery)
    /\ WF_vars(TickRotateVote)
    /\ WF_vars(CloseVoteTallies)
    /\ WF_vars(CloseVoteSet)
    /\ WF_vars(CloseVoteSnapGet)
    /\ WF_vars(CloseVoteSnapSet)
    /\ WF_vars(TickOpenVote)
    /\ WF_vars(TickRedisOpen)
    /\ WF_vars(TickPublishSchedule)

\* the first rotation after bootstrap: a tick is delivered while no poll exists yet and
\* no other tick is in flight
TickFirst ==
    /\ voteState.status = "ABSENT"
    /\ \A q \in Procs : procs[q].op # "tick"
    /\ Tick

\* the rotation ticks alone, with duplicate and concurrent deliveries; the poll close
\* tasks are late
NextTick ==
    \/ Tick
    \/ TickRotateVote
    \/ CloseVoteTallies
    \/ CloseVoteSet
    \/ CloseVoteSnapGet
    \/ CloseVoteSnapSet
    \/ TickOpenVote
    \/ TickRedisOpen
    \/ TickPublishSchedule
    \/ ExpireSnapshot

SpecTick == Init /\ [][NextTick]_vars

\* the first poll, within the lifetime of its snapshot: the rotation that opens it,
\* then /vote/close deliveries and votes in any interleaving
NextPoll ==
    \/ TickFirst
    \/ TickRotateVote
    \/ TickOpenVote
    \/ TickRedisOpen
    \/ TickPublishSchedule
    \/ CloseVote
    \/ CloseVoteTallies
    \/ CloseVoteSet
    \/ CloseVoteSnapGet
    \/ CloseVoteSnapSet
    \/ Vote
    \/ VoteHexists
    \/ VoteEval

SpecPoll == Init /\ [][NextPoll]_vars

\* the next-song paths around the first rotation: encoder writes, /next/refresh and
\* next-song-updater deliveries in any interleaving, no votes
NextRotation ==
    \/ TickFirst
    \/ TickRotateVote
    \/ TickOpenVote
    \/ TickRedisOpen
    \/ TickPublishSchedule
    \/ RefreshNextSong
    \/ RefreshSnapGet
    \/ RefreshSnapSet
    \/ NextSongUpdater
    \/ UpdaterSnapGet
    \/ UpdaterSnapSet
    \/ PersistMetadata
    \/ ExpireSnapshot

SpecRotation == Init /\ [][NextRotation]_vars

\* no handler is in flight
AllIdle == \A q \in Procs : procs[q].pc = "idle"

\* the next-song paths with the handlers run one after the other: a delivery starts
\* only when the one before it has returned
NextReplace ==
    \/ AllIdle /\ TickFirst
    \/ TickRotateVote
    \/ TickOpenVote
    \/ TickRedisOpen
    \/ TickPublishSchedule
    \/ AllIdle /\ RefreshNextSong
    \/ RefreshSnapGet
    \/ RefreshSnapSet
    \/ AllIdle /\ NextSongUpdater
    \/ UpdaterSnapGet
    \/ UpdaterSnapSet
    \/ AllIdle /\ PersistMetadata
    \/ AllIdle /\ ExpireSnapshot

SpecReplace == Init /\ [][NextReplace]_vars

\* no push handler of the hub is in flight
HandlersIdle == \A g \in HubProcs : handlers[g].op = "idle"

\* the SSE hub beside the rotation engine over two rotations: the playback queue
\* delivers the ticks one after the other, the EventBus pushes every published playback
\* message at least once and in any order, one push at a time, and one client connects;
\* the snapshot key outlives the rotations, and the tally snapshot interval passes only
\* where SONG_CHANGED has reset it
NextHub ==
    \/ Startup
    \/ AllIdle /\ TickDelivery
    \/ TickRotateVote
    \/ CloseVoteTallies
    \/ CloseVoteSet
    \/ CloseVoteSnapGet
    \/ CloseVoteSnapSet
    \/ TickOpenVote
    \/ TickRedisOpen
    \/ TickPublishSchedule
    \/ HandlersIdle /\ \E h \in HubProcs, e \in published : handle_changeover_event(h, e)
    \/ \E h \in HubProcs : changeover_invalidate(h)
    \/ HandlersIdle /\ \E h \in HubProcs, e \in published : handle_next_song_changed_event(h, e)
    \/ stream_votes
    \/ loop_fetch_next
    \/ stream_connected
    \/ stream_initial_tallies
    \/ stream_initial_tallies_fetched
    \/ stream_event_markers
    \/ check_invalidated
    \/ check_invalidated_fetched
    \/ check_next_song_changed
    \/ loop.snapshot_due /\ tally_snapshot
    \/ tally_snapshot_tallies
    \/ tally_snapshot_fetched
    \/ tally_delta
    \/ tally_delta_fetched
    \/ loop_sleep

SpecHub == Init /\ [][NextHub]_vars

\* the hub's snapshot reads beside the writers of the snapshot key around the first
\* rotation: the tick, the /vote/close task the tick enqueued, and the key's expiry;
\* the engine's requests run one after the other, one client connects
NextSnapshot ==
    \/ AllIdle /\ TickFirst
    \/ TickRotateVote
    \/ TickOpenVote
    \/ TickRedisOpen
    \/ TickPublishSchedule
    \/ AllIdle /\ CloseDelivery
    \/ CloseVoteTallies
    \/ CloseVoteSet
    \/ CloseVoteSnapGet
    \/ CloseVoteSnapSet
    \/ ExpireSnapshot
    \/ \E e \in published : vote_event(e)
    \/ snapshot_cache_expires
    \/ stream_votes
    \/ loop_fetch_next
    \/ stream_connected
    \/ stream_initial_tallies
    \/ stream_initial_tallies_fetched
    \/ stream_event_markers
    \/ check_vote_closed
    \/ tally_snapshot
    \/ tally_snapshot_fetched
    \/ heartbeat
    \/ loop_sleep

SpecSnapshot == Init /\ [][NextSnapshot]_vars

\* the tallies of the first poll on one connection: the first rotation, votes, the
\* tally events they publish, the staleness of the hub's tally copies and the expiry
\* of the tally key
NextTally ==
    \/ AllIdle /\ TickFirst
    \/ TickRotateVote
    \/ TickOpenVote
    \/ TickRedisOpen
    \/ TickPublishSchedule
    \/ AllIdle /\ Vote
    \/ VoteHexists
    \/ VoteEval
    \/ \E v \in PollIds : expire_tally(v)
    \/ HandlersIdle /\ \E h \in HubProcs, e \in published : tally_event(h, e)
    \/ \E h \in HubProcs : tally_event_marked(h)
    \/ \E v \in PollIds : tally_cache_expires(v)
    \/ stream_votes
    \/ loop_fetch_next
    \/ stream_connected
    \/ stream_initial_tallies
    \/ stream_initial_tallies_fetched
    \/ stream_event_markers
    \/ tally_snapshot
    \/ tally_snapshot_tallies
    \/ tally_delta
    \/ tally_delta_fetched
    \/ loop_sleep

SpecTally == Init /\ [][NextTally]_vars

\* the writers of the snapshot key side by side around the first poll: the first
\* rotation, the /vote/close task it enqueued, and the next-song updates of
\* /next/refresh and next-song-updater
NextSnapshotWriters ==
    \/ AllIdle /\ TickFirst
    \/ TickRotateVote
    \/ TickOpenVote
    \/ TickRedisOpen
    \/ TickPublishSchedule
    \/ CloseDelivery
    \/ CloseVoteTallies
    \/ CloseVoteSet
    \/ CloseVoteSnapGet
    \/ CloseVoteSnapSet
    \/ PersistMetadata
    \/ RefreshNextSong
    \/ RefreshSnapGet
    \/ RefreshSnapSet
    \/ NextSongUpdater
    \/ UpdaterSnapGet
    \/ UpdaterSnapSet

SpecSnapshotWriters == Init /\ [][NextSnapshotWriters]_vars

\* the rotations when every /vote/close task is lost: the playback queue delivers the
\* ticks (at least once) one version after the other, each poll is left OPEN until the
\* next tick, and the snapshot key expires with the song
NextLostClose ==
    \/ Startup
    \/ TickDelivery
    \/ TickRotateVote
    \/ CloseVoteTallies
    \/ CloseVoteSet
    \/ CloseVoteSnapGet
    \/ CloseVoteSnapSet
    \/ TickOpenVote
    \/ TickRedisOpen
    \/ TickPublishSchedule
    \/ ExpireSnapshot

SpecLostClose == Init /\ [][NextLostClose]_vars

\* the first rotation with encoder writes, /next/refresh and next-song-updater
\* deliveries arriving while it runs, within the lifetime of the snapshot key
NextDuringTick ==
    \/ TickFirst
    \/ TickRotateVote
    \/ TickOpenVote
    \/ TickRedisOpen
    \/ TickPublishSchedule
    \/ RefreshNextSong
    \/ RefreshSnapGet
    \/ RefreshSnapSet
    \/ NextSongUpdater
    \/ UpdaterSnapGet
    \/ UpdaterSnapSet
    \/ PersistMetadata

SpecDuringTick == Init /\ [][NextDuringTick]_vars

\* ------------------------------------------------------------------ claims
\* C1: delivering tick(v) twice, one after the other or concurrently, has the first
\* delivery return ok with version v and the second return noop with reason
\* stale_version, and the station record is committed exactly once for v: every tick
\* delivery ends either ok for a version committed once, or noop/stale_version for a
\* version the station has reached.
C1_TickTwice ==
    /\ \A v \in Versions : commits[v] <= 1
    /\ response.op = "tick" =>
          \/ /\ response.status = "ok"
             /\ commits[response.version] = 1
          \/ /\ response.status = "noop"
             /\ response.reason = "stale_version"
             /\ response.version <= station.version

\* C6 as stated: every tick that commits takes the station version from its value
\* before the commit to that value plus exactly 1.
C6_VersionPlusOne ==
    [][\A v \in Versions :
          commits'[v] # commits[v] => station'.version = station.version + 1]_vars

\* C6 as amended: every tick that commits sets the station version to its
\* requestVersion, which is strictly greater than the version before the commit; the
\* version changes in no other step.
C6_VersionIsRequestVersion ==
    [][/\ \A v \in Versions :
             commits'[v] # commits[v] => station'.version = v /\ station.version < v
       /\ station'.version # station.version => \E v \in Versions : commits'[v] # commits[v]]_vars

\* a tick with requestVersion 2 has committed on the bootstrap record (version 0)
C6_Witness ==
    /\ station.version = 2
    /\ commits[2] = 1
    /\ commits[1] = 0

\* votes admitted for poll v so far
Admitted(v) == SumOver(admitted[v], Sessions)

\* C2: for every session S and poll V, over any interleaving of vote requests, at most
\* one vote(V, S, option) is admitted, that is, increments a tally.
C2_OneVotePerSession ==
    \A v \in PollIds, s \in Sessions : admitted[v][s] <= 1

\* a session's second vote on a poll has just been answered duplicate
C2_Witness ==
    /\ response.op = "vote"
    /\ response.status = "duplicate"
    /\ \E v \in PollIds, s \in Sessions : admitted[v][s] = 1 /\ kvVoted[v] = {s}

\* C3: in every reachable state of a poll with N votes admitted, the voted set has
\* exactly N members and the tally fields sum to exactly N; and no tally field of an
\* existing tally hash ever decreases or disappears.
C3_TalliesMatchVoted ==
    /\ [](\A v \in PollIds :
             /\ Cardinality(kvVoted[v]) = Admitted(v)
             /\ TallySum(kvTally[v]) = Admitted(v))
    /\ [][\A v \in PollIds : \A o \in DOMAIN kvTally[v] :
             o \in DOMAIN kvTally'[v] /\ kvTally[v][o] <= kvTally'[v][o]]_vars

\* two votes have been admitted on one poll
C3_Witness ==
    \E v \in PollIds :
        /\ Admitted(v) = 2
        /\ Cardinality(kvVoted[v]) = 2
        /\ TallySum(kvTally[v]) = 2

\* C4: for every OPEN poll, among all /vote/close calls issued for it (the scheduled
\* task, redeliveries, concurrent deliveries) at most one returns action closed.
C4_AtMostOneClosed ==
    \A v \in PollIds : closedBy[v] <= 1

\* the vote handler on slot p takes its last step, and it changes the poll's keys
VoteAdmittedBy(p) ==
    /\ At(p, "vote", "eval")
    /\ procs'[p].pc = "idle"
    /\ kvVoted' # kvVoted \/ kvTally' # kvTally

\* C5: a vote is admitted (the voted set and the tally hash change) only if the
\* snapshot it was validated against had poll.voteId equal to the vote's voteId and
\* poll.status OPEN; a vote validated against a snapshot whose poll.status is CLOSED
\* leaves the voted set and the tally hash unchanged.
C5_AdmittedOnlyWhenOpen ==
    [][\A p \in Procs :
          VoteAdmittedBy(p) =>
             /\ procs[p].snapshot.poll.voteId = procs[p].voteId
             /\ procs[p].snapshot.poll.status = "OPEN"]_vars

\* C7: when KV-VOTE runs with a session that is already in the poll's voted set, no
\* tally field changes and the vote is answered duplicate, whichever option it names.
C7_DuplicateLeavesTally ==
    [][\A p \in Procs :
          (/\ At(p, "vote", "eval")
           /\ procs'[p].pc = "idle"
           /\ procs[p].sessionId \in kvVoted[procs[p].voteId])
          => /\ kvTally' = kvTally
             /\ kvVoted' = kvVoted
             /\ response'.status = "duplicate"]_vars

\* s1 voted a, then voted again and was answered duplicate: the tallies are a:1, b:0
C7_Witness ==
    /\ response.op = "vote"
    /\ response.status = "duplicate"
    /\ \E v \in PollIds :
          /\ kvVoted[v] = {"s1"}
          /\ kvTally[v] = [o \in vote_options |-> IF o = "a" THEN 1 ELSE 0]

\* C8: a vote whose option is not a field of the poll's tally hash is rejected as
\* invalid_option before KV-VOTE runs: KV-VOTE never runs for such an option, the
\* rejection leaves the voted set and the tally hash as they were, and no tally hash
\* ever gets a field that is not an option of its poll.
C8_InvalidOptionRejected ==
    /\ [](/\ \A p \in Procs :
                procs[p].pc = "eval" => procs[p].option \in DOMAIN kvTally[procs[p].voteId]
          /\ \A v \in PollIds : DOMAIN kvTally[v] = {} \/ DOMAIN kvTally[v] \in get_window_options)
    /\ [][response'.status = "invalid_option" => kvVoted' = kvVoted /\ kvTally' = kvTally]_vars

\* a vote was answered invalid_option, and its session is not in the voted set
C8_Witness ==
    /\ response.op = "vote"
    /\ response.status = "invalid_option"
    /\ \E v \in PollIds : DOMAIN kvTally[v] # {} /\ kvVoted[v] = {}

\* C9: whenever a poll is closed, the recorded winnerOption is one of the poll's
\* options and its recorded tally is the maximum of the tallies recorded at the close.
C9_WinnerHasMaxTally ==
    voteState.status = "CLOSED" =>
        /\ voteState.winnerOption \in voteState.options
        /\ \A o \in voteState.options :
              voteState.tallies[o] <= voteState.tallies[voteState.winnerOption]

\* a poll was closed with votes in: the winner a has 1 vote, b has none
C9_Witness ==
    /\ voteState.status = "CLOSED"
    /\ voteState.winnerOption = "a"
    /\ voteState.tallies = [o \in vote_options |-> IF o = "a" THEN 1 ELSE 0]

\* what replaceNextIfStubbed owes when it is handed a song it can promote (given):
\* next changes if and only if next was stubbed, the song promoted to next is queued,
\* and version, voteId, startAt, endAt and durationMs stay as they were
ReplaceNextContract(given) ==
    /\ (station.next.voteId = STUBBED_VOTE_ID /\ given) => station'.next # station.next
    /\ station'.next # station.next =>
          /\ station.next.voteId = STUBBED_VOTE_ID
          /\ songs'[station'.next.voteId].status = "queued"
    /\ station'.version = station.version
    /\ station'.voteId = station.voteId
    /\ station'.startAt = station.startAt
    /\ station'.endAt = station.endAt
    /\ station'.durationMs = station.durationMs

\* C10: replaceNextIfStubbed (the /next/refresh transaction and the next-song-updater
\* transaction) changes the station's next if and only if next.voteId is "stubbed";
\* when it swaps, the promoted song's status becomes queued; in every case the
\* station's version, voteId, startAt, endAt and durationMs are unchanged.
C10_ReplaceNextIfStubbed ==
    [][\A p \in Procs, s \in SongIds :
          /\ refresh_next_song(p, s) => ReplaceNextContract(ReadySongs(station.voteId) # {})
          /\ next_song_updater(p, s) => ReplaceNextContract(songs[s].status # "absent")]_vars

\* the call on slot p found next already set to a song: the second of two calls in a row
ReplaceAlreadySet(p) ==
    \/ procs[p].op = "updater" /\ procs[p].txn.action = "already_updated"
    \/ procs[p].op = "refresh" /\ procs[p].txn.reason = "next_not_stubbed"

\* C11: replaceNextIfStubbed(V, D) called twice in a row: the second call finds next
\* already set to V, changes nothing in DS, and when it ends the call is answered ok
\* and the snapshot's nextSong is {voteId: V, durationMs: D}.
C11_ReplaceTwice ==
    [][\A p \in Procs, s \in SongIds :
          /\ (next_song_updater(p, s) /\ station.next.voteId = s) =>
                /\ procs'[p].txn.action = "already_updated"
                /\ dsVars' = dsVars
          /\ (refresh_next_song(p, s) /\ station.next.voteId # STUBBED_VOTE_ID) =>
                /\ procs'[p].txn.reason = "next_not_stubbed"
                /\ dsVars' = dsVars
          /\ (ReplaceAlreadySet(p) /\ procs'[p].pc = "idle") =>
                /\ response'.status = "ok"
                /\ kvSnapshot'.present
                /\ kvSnapshot'.nextSong = [voteId |-> procs[p].txn.voteId,
                                           durationMs |-> procs[p].txn.durationMs]]_vars

\* C12: on the connection, once SONG_CHANGED has been sent for the changeover of
\* version v, no TALLY_DELTA carries the voteId of a poll that an earlier rotation
\* opened (a poll from before that changeover).
C12_NoTallyDeltaForPreviousPoll ==
    sse.event = "TALLY_DELTA" =>
        \A w \in Versions : (w < songChanged /\ opened[w] # 0) => sse.voteId # opened[w]

\* C13: on the connection, after a SONG_CHANGED with version v no SONG_CHANGED or
\* NEXT-SONG-CHANGED carries a playback version lower than v.
C13_VersionsNeverGoBack ==
    sse.event \in {"SONG_CHANGED", "NEXT-SONG-CHANGED"} => sse.version >= songChanged

\* the fields of a snapshot document
SnapshotBody(s) == [currentSong |-> s.currentSong, nextSong |-> s.nextSong, poll |-> s.poll]

\* C14: while the snapshot key is live getSnapshot returns exactly the snapshot S in
\* KV; and every snapshot S written to KV has the currentSong and the poll voteId that
\* a rebuild from DS gives at that moment, so that after expiry, DS not being mutated
\* in between, the rebuilt snapshot agrees with S on both.
C14_GetSnapshotReturnsWritten ==
    /\ [](kvSnapshot.present =>
             SnapshotBody(get_state_snapshot) = SnapshotBody(kvSnapshot))
    /\ [][(kvSnapshot' # kvSnapshot /\ kvSnapshot'.present) =>
             /\ kvSnapshot'.currentSong =
                    build_state_snapshot(station', voteState').currentSong
             /\ kvSnapshot'.poll.voteId = voteState'.voteId]_vars

\* tick(1) has just returned ok and no other rotation was committed: the first rotation
\* from the seeded state
BootstrapTickDone ==
    /\ response.op = "tick" /\ response.status = "ok" /\ response.version = 1
    /\ \A v \in Versions \ {1} : commits[v] = 0

\* C15: from the seeded state, tick(1) returns ok with version 1 and leaves the station
\* with voteId stubbed, durationMs D, version 1, next {stubbed, D}, and an OPEN poll with
\* version 1, the configured number of options, every tally 0 and
\* durationMs = max(0, D - 60000).
C15_BootstrapTick ==
    BootstrapTickDone =>
        /\ station.voteId = STUBBED_VOTE_ID
        /\ station.durationMs = STUBBED_DURATION_MS
        /\ station.version = 1
        /\ station.next = [voteId |-> STUBBED_VOTE_ID, durationMs |-> STUBBED_DURATION_MS]
        /\ voteState.status = "OPEN"
        /\ voteState.version = 1
        /\ Cardinality(voteState.options) = configured_options
        /\ \A o \in voteState.options : voteState.tallies[o] = 0
        /\ DOMAIN voteState.tallies = voteState.options
        /\ voteState.durationMs = Max(0, STUBBED_DURATION_MS - 60000)

C15_Witness == BootstrapTickDone /\ voteState.voteId = 1

\* C16: a tick whose request version is at most the station's version changes neither
\* the station, the songs, the poll, the snapshot, the tallies nor the voted sets,
\* publishes no event and enqueues no task.
C16_StaleTickChangesNothing ==
    [][\A p \in Procs, v \in Versions :
          (tick_rotate_song(p, v) /\ v <= station.version) =>
              UNCHANGED <<dsVars, kvVars, published, tasks>>]_vars

C16_Witness ==
    /\ response.op = "tick"
    /\ response.status = "noop"
    /\ response.reason = "stale_version"
    /\ response.version <= station.version

\* a rotation commits in this step
RotationCommits == commits' # commits

NoReadySong == \A s \in SongIds : songs[s].status # "ready"

BecomesPlayed(s) == songs[s].status # "played" /\ songs'[s].status = "played"

BecomesQueued(s) == songs[s].status # "queued" /\ songs'[s].status = "queued"

\* C17 as stated: a rotation that runs with no song of status ready selects stubbed as
\* the new next and moves no song to played and no song to queued.
C17_NoReadyNoTransition ==
    [][(RotationCommits /\ NoReadySong) =>
          /\ station'.next.voteId = STUBBED_VOTE_ID
          /\ \A s \in SongIds : ~BecomesPlayed(s) /\ ~BecomesQueued(s)]_vars

\* C17 amended: a rotation that runs with no song of status ready selects stubbed as
\* the new next and moves no song to queued; the only song it moves to played is the
\* one that was next and becomes current.
C17_NoReadyNoQueued ==
    [][(RotationCommits /\ NoReadySong) =>
          /\ station'.next.voteId = STUBBED_VOTE_ID
          /\ \A s \in SongIds : ~BecomesQueued(s)
          /\ \A s \in SongIds : BecomesPlayed(s) => s = station.next.voteId /\ s = station'.voteId]_vars

\* a rotation has run with no ready song while a queued song was next
C17_Witness ==
    /\ \E v \in Versions : commits[v] > 0
    /\ station.voteId # STUBBED_VOTE_ID
    /\ station.next.voteId = STUBBED_VOTE_ID
    /\ songs[station.voteId].status = "played"
    /\ \A s \in SongIds : songs[s].status # "queued"

\* C18: in every reachable state the station's next is stubbed or a song whose status
\* is ready or queued, and never the song currently playing.
C18_NextIsReadyOrQueued ==
    station.next.voteId # STUBBED_VOTE_ID =>
        /\ songs[station.next.voteId].status \in {"ready", "queued"}
        /\ station.next.voteId # station.voteId

\* the place of a status in the lifecycle ready -> queued -> played
StatusRank(status) ==
    CASE status = "absent" -> 0
      [] status = "ready" -> 1
      [] status = "queued" -> 2
      [] status = "played" -> 3

\* C19: no step moves a song to an earlier status; a song that becomes next is queued
\* and a song that becomes current is played.
C19_StatusMovesForward ==
    [][\A s \in SongIds :
          /\ StatusRank(songs'[s].status) >= StatusRank(songs[s].status)
          /\ (station'.next.voteId = s /\ station.next.voteId # s) => songs'[s].status = "queued"
          /\ (station'.voteId = s /\ station.voteId # s) => songs'[s].status = "played"]_vars

\* a step writes an OPEN poll to voteState/current
PollOpens == voteState' # voteState /\ voteState'.status = "OPEN"

\* C20: every newly opened poll has a voteId no earlier poll had (the ids drawn so far
\* are 1..uuids) and the version of the poll it replaces plus one (1 when there was
\* none), and no step turns a CLOSED poll into an OPEN one.
C20_FreshPollNextVersion ==
    [][/\ PollOpens =>
             /\ voteState'.voteId > uuids
             /\ voteState'.version = IF voteState.status = "ABSENT" THEN 1
                                     ELSE voteState.version + 1
       /\ (voteState.status = "CLOSED" /\ voteState'.voteId = voteState.voteId) =>
             voteState'.status = "CLOSED"]_vars

\* a running broadcaster fans a chunk out in this step
ChunkPublished == chunks' # chunks

\* C21: a publish drops exactly the subscribers whose queue is full and appends the
\* chunk to the queue of every other subscriber; the publish is enabled whatever the
\* queues hold; no queue ever holds more than queue_maxsize chunks.
C21_BroadcastDropsFullSubscribers ==
    /\ [](\A i \in DOMAIN subscribers : Len(subscribers[i]) <= queue_maxsize)
    /\ []((running /\ chunks < MaxChunks) => ENABLED publish_chunk)
    /\ [][ChunkPublished =>
             \A i \in DOMAIN subscribers :
                 IF Len(subscribers[i]) = queue_maxsize
                 THEN i \notin DOMAIN subscribers'
                 ELSE /\ i \in DOMAIN subscribers'
                      /\ subscribers'[i] = Append(subscribers[i], chunks')]_vars

\* a publish has dropped one subscriber and delivered the chunk to another
C21_Witness ==
    /\ lastDrop > 0
    /\ lastDrop = chunks
    /\ \E i \in DOMAIN subscribers : subscribers[i] # <<>> /\
           subscribers[i][Len(subscribers[i])] = chunks

\* C22: with the /vote/close tasks lost, no tick ends in an error, and a tick that
\* opens a poll over an earlier one finds the earlier one CLOSED with a winner and its
\* CLOSE event published.
C22_NextTickForcesClose ==
    /\ [](response.op = "tick" => response.status \in {"ok", "noop"})
    /\ [][(PollOpens /\ voteState.status # "ABSENT") =>
             /\ voteState.status = "CLOSED"
             /\ voteState.winnerOption # ""
             /\ publish_vote_event("CLOSE", voteState.voteId, voteState.winnerOption)
                    \in published]_vars

\* the connection's loop sends this event in this step
Sends(event) == loop' # loop /\ sse'.event = event

\* C23: a connection sends SONG_CHANGED at most once for a rotation version and
\* VOTE_CLOSED at most once for a poll, however often the EventBus delivers the
\* CHANGEOVER and CLOSE messages to the hub.
C23_SentOncePerVersionAndPoll ==
    [][/\ Sends("SONG_CHANGED") => <<"SONG_CHANGED", sse'.version>> \notin emitted
       /\ Sends("VOTE_CLOSED") => <<"VOTE_CLOSED", sse'.voteId>> \notin emitted]_vars

\* C24: a /vote/close whose voteId or version differs from the current poll's, or whose
\* poll is not OPEN, returns a noop with its reason and leaves the poll, the snapshot
\* and the tallies unchanged and publishes nothing.
C24_MismatchedCloseIsNoop ==
    [][\A p \in Procs, v \in PollIds, n \in Versions :
          (/\ close_vote(p, v, n)
           /\ \/ voteState.voteId # v
              \/ voteState.version # n
              \/ voteState.status # "OPEN") =>
              /\ response'.op = "close"
              /\ response'.status = "ok"
              /\ response'.reason \in {"missing_state", "vote_mismatch", "version_mismatch",
                                        "already_closed"}
              /\ UNCHANGED <<voteState, kvSnapshot, kvTally, published, procs>>]_vars

\* a close task of the open poll with another version has been answered
C24_Witness ==
    /\ response.op = "close"
    /\ response.reason = "version_mismatch"
    /\ voteState.status = "OPEN"

\* the tick on slot p takes a step
TickSteps(p) == procs[p].op = "tick" /\ procs'[p] # procs[p]

\* C25: a tick publishes its events and enqueues its tasks only after the KV script has
\* written the snapshot and the counters of the new poll, which follows the station
\* update, the poll close and the poll open.
C25_PublishAfterKvOpen ==
    [][\A p \in Procs :
          (TickSteps(p) /\ (published' # published \/ tasks' # tasks)) =>
              /\ procs[p].pc = "publish_schedule"
              /\ commits[procs[p].version] > 0
              /\ opened[procs[p].version] = procs[p].window.voteId
              /\ DOMAIN kvTally[procs[p].window.voteId] = procs[p].window.options]_vars

\* a tick has just returned ok and no other handler is in flight
TickCompleted == response.op = "tick" /\ response.status = "ok" /\ AllIdle

\* C26: when a tick has completed, the snapshot's currentSong and nextSong are the
\* station's current and next, its poll is the current OPEN poll, and that poll's
\* tally has exactly the poll's options, each at 0, and an empty voted set.
C26_SnapshotMatchesAfterTick ==
    TickCompleted =>
        /\ kvSnapshot.present
        /\ kvSnapshot.currentSong = [voteId |-> station.voteId, startAt |-> station.startAt,
                                     endAt |-> station.endAt, durationMs |-> station.durationMs]
        /\ kvSnapshot.nextSong = station.next
        /\ voteState.status = "OPEN"
        /\ kvSnapshot.poll.voteId = voteState.voteId
        /\ kvSnapshot.poll.status = "OPEN"
        /\ DOMAIN kvTally[voteState.voteId] = voteState.options
        /\ \A o \in voteState.options : kvTally[voteState.voteId][o] = 0
        /\ kvVoted[voteState.voteId] = {}

\* C27: the write of set_playback_poll_status changes only poll.status of the snapshot
\* under the key; when the snapshot is missing or belongs to another poll the call
\* fails and the snapshot stays as it is.
C27_SetPollStatusOnlyStatus ==
    [][\A p \in Procs :
          /\ close_vote_snap_set(p) =>
                kvSnapshot' = [kvSnapshot EXCEPT !.poll.status = "CLOSED"]
          /\ (/\ close_vote_snap_get(p)
              /\ \/ ~kvSnapshot.present
                 \/ kvSnapshot.poll.voteId # procs[p].state.voteId) =>
                /\ response'.status = "error"
                /\ procs'[p].pc = "idle"
                /\ kvSnapshot' = kvSnapshot]_vars


\* C28: no coroutine of the hub is suspended in a read of DS or KV while it holds
\* tally_lock; the lock is free during the HGETALL that refills the tally copy.
C28_NoLockAcrossSuspension ==
    stream.tally_lock => loop.fetch = ""

\* the connection's loop sends a TALLY_SNAPSHOT or a TALLY_DELTA in this step
SendsTally == Sends("TALLY_SNAPSHOT") \/ Sends("TALLY_DELTA")

\* C29 as stated: a client that replaces its tally on TALLY_SNAPSHOT and adds the deltas
\* on TALLY_DELTA holds, after every one of them, the tally the hub read for it.
C29_ClientHoldsLastRead ==
    [][SendsTally => /\ client'.voteId = loop'.vote_id
                     /\ client'.tally = loop'.last_tallies]_vars

\* C29: every TALLY_DELTA carries for each option the tally read minus the tally last
\* sent on the connection, 0 for an option that disappeared, so a client that replaces
\* its tally on TALLY_SNAPSHOT and adds the deltas on TALLY_DELTA holds the tally the
\* hub last read for that voteId as long as no option has disappeared since the last
\* TALLY_SNAPSHOT.
C29_ClientHoldsLastReadUnlessLost ==
    [][(SendsTally /\ ~client'.lost) => /\ client'.voteId = loop'.vote_id
                                        /\ client'.tally = loop'.last_tallies]_vars

\* a TALLY_DELTA has brought the client to the two votes the hub read
C29_Witness ==
    /\ sse.event = "TALLY_DELTA"
    /\ ~client.lost
    /\ client.voteId = loop.vote_id
    /\ client.tally = loop.last_tallies
    /\ \E o \in DOMAIN client.tally : client.tally[o] = 2

SomeReadySong == \E s \in SongIds : songs[s].status = "ready"

\* C30: a rotation that runs while some song has status ready makes a song that was
\* ready the new next, never stubbed.
C30_ReadyBeatsStubbed ==
    [][(RotationCommits /\ SomeReadySong) =>
          /\ station'.next.voteId # STUBBED_VOTE_ID
          /\ songs[station'.next.voteId].status = "ready"]_vars

\* C31: after every committed rotation and every next-song replacement the station's
\* next differs from its current song unless next is stubbed.
C31_NextIsNotCurrent ==
    [][station' # station =>
          (station'.next.voteId # STUBBED_VOTE_ID =>
              station'.next.voteId # station'.voteId)]_vars

\* a coroutine of the hub ends _build_state_snapshot in this step
Rebuilds ==
    \/ loop.fetch = "vote" /\ loop'.fetch = ""
    \/ \E h \in HubProcs : handlers[h].fetch = "vote" /\ handlers'[h].fetch = ""

\* C32: when getSnapshot misses in KV and rebuilds the snapshot from the station and
\* the poll, the rebuilt snapshot is written back to KV: the key is live afterwards and
\* holds what the hub now has as its copy.
C32_RebuildWritesBack ==
    [][Rebuilds => /\ kvSnapshot'.present
                   /\ SnapshotBody(kvSnapshot') = SnapshotBody(stream'.snapshot_cache.data)]_vars

\* C33: a /vote/close for poll P that read the poll while P was OPEN and writes after a
\* rotation has closed P and opened a new poll leaves the new poll as it is: OPEN, with
\* its own voteId, options and version.
C33_CloseNeverOverwritesNewPoll ==
    [][\A p \in Procs :
          (/\ close_vote_set(p)
           /\ procs[p].op = "close"
           /\ voteState.status = "OPEN"
           /\ voteState.voteId # procs[p].state.voteId) => voteState' = voteState]_vars

\* a next-song update writes the snapshot key in this step
NextSongSnapshotWrite ==
    \E p \in Procs : refresh_snap_set(p) \/ updater_snap_set(p)

\* C34: a next-song update of the KV snapshot changes only nextSong: it never changes
\* the currentSong or the poll's voteId that the key holds when it writes, and never
\* turns the poll's status from CLOSED back to OPEN.
C34_NextSongUpdateKeepsRest ==
    [][(NextSongSnapshotWrite /\ kvSnapshot.present) =>
          /\ kvSnapshot'.currentSong = kvSnapshot.currentSong
          /\ kvSnapshot'.poll.voteId = kvSnapshot.poll.voteId
          /\ ~(kvSnapshot.poll.status = "CLOSED" /\ kvSnapshot'.poll.status = "OPEN")]_vars

\* C35: rotation never stalls: once a tick has committed the station for version v, a
\* poll is eventually opened for that rotation and a tick(v + 1) task is eventually
\* enqueued, whatever fails in between and however often tick(v) is redelivered.
C35_RotationNeverStalls ==
    \A v \in Versions :
        (commits[v] > 0) ~> (opened[v] # 0 /\ TickTask(v + 1) \in tasks)

CloseEvents == {e \in published : e.event = "CLOSE"}

\* C36: every CLOSE event published for a poll carries the winnerOption stored in the
\* poll's CLOSED state; once a poll is CLOSED and no handler is in flight a CLOSE event
\* for it has been published; and two CLOSE events for one voteId name the same winner.
C36_CloseEventMatchesPoll ==
    /\ \A e \in CloseEvents :
          (voteState.status = "CLOSED" /\ voteState.voteId = e.voteId) =>
              e.winnerOption = voteState.winnerOption
    /\ (voteState.status = "CLOSED" /\ AllIdle) =>
          \E e \in CloseEvents : e.voteId = voteState.voteId
    /\ \A e, f \in CloseEvents : e.voteId = f.voteId => e.winnerOption = f.winnerOption

\* C37: on the connection, once VOTE_CLOSED has been sent for a voteId, no later
\* TALLY_SNAPSHOT for that voteId reports the status OPEN.
C37_NoOpenSnapshotAfterVoteClosed ==
    [][(Sends("TALLY_SNAPSHOT") /\ <<"VOTE_CLOSED", sse'.voteId>> \in emitted) =>
          sse'.status # "OPEN"]_vars


\* C38: for each voteId, the generation worker is dispatched at most once, however
\* many times and however concurrently the poll's CLOSE event is delivered
C38_DispatchedAtMostOnce == \A v \in PollIds : dispatched[v] <= 1


\* C39: while the key of a (windowId, sessionId) pair is live at most one
\* set-if-absent on it has succeeded; an attempt after that one fails, whatever its
\* option, and leaves the stored option as it was; and an attempt fails only where
\* its own pair holds the key, for distinct pairs never share one
C39_OneSetPerLiveKey ==
    [][\A w \in window_ids, s \in session_ids, o \in vote_options :
          dedupe_set(w, s, o) =>
              /\ wins'[<<w, s>>] <= 1
              /\ wins[<<w, s>>] = 1 => ~attempt'.ok /\ dedupe' = dedupe
              /\ ~attempt'.ok => wins[<<w, s>>] = 1]_vars

\* a pair's second attempt, with the other option, was refused while another
\* pair's key was live too
C39_Witness ==
    /\ attempt # NoAttempt /\ ~attempt.ok
    /\ \E e \in dedupe : /\ e.key = dedupe_key(attempt.window_id, attempt.session_id)
                         /\ e.value # attempt.option
    /\ Cardinality(dedupe) >= 2

====
